---------------------------- MODULE Spec2Model ----------------------------
(***************************************************************************)
(* Maze-Solver: the Maze grid (src/maze.py), the five search strategies    *)
(* and their generator ("animated") variants (src/algorithms.py), and the  *)
(* editing handlers of the GUI (src/gui_main.py).                          *)
(*                                                                         *)
(* A position is a pair <<row, col>>, 0-based as in the source.  Python's  *)
(* None is the empty tuple: it is falsy in Python as None is, and it is    *)
(* different from every position.  An absent path (None) and the empty     *)
(* list [] are both <<>>: no search returns an empty list as its path.     *)
(* The wall-clock runtime a search returns is not modelled.                *)
(***************************************************************************)
EXTENDS Integers, Sequences, FiniteSets, TLC

\* The mazes explored are all the Rows x Cols grids.
Rows == 3
Cols == 3

None == <<>>

VARIABLES
    \* Maze (src/maze.py)
    rows, cols, grid, start, goal,
    \* GUI (src/gui_main.py)
    edit_mode,
    \* history: the last set_cell call reset the old Start or Goal cell to '.'
    relocated,
    \* which function is executing and where
    algo, pc,
    \* locals of the executing search; the bidirectional search's forward
    \* side uses queue, visited and parent
    queue, visited, parent,
    backward_queue, backward_visited, backward_parent,
    heap, g_score, counter,
    nodes_explored, explored_cells, meeting_point, is_forward_turn, current,
    \* the tuple the last run-to-completion search returned, the number of
    \* frontier pops it made, and the snapshots the generator has yielded
    ret, pops, yielded,
    \* the caller's side: the text given to load_from_string, the locals of
    \* compare_all_algorithms while it runs, and the frame of a generator
    \* that is suspended while another call executes
    text, compare, suspended,
    \* GUI (src/gui_main.py): the animation's fields, the timer callbacks
    \* root.after has pending, stats['status'], the handler the interface
    \* thread is executing, the number of snapshots animate_step has shown,
    \* and the Maze object the generator was given once self.maze is another;
    \* the generator object of function f is written <<f>>
    animation_running, animation_generator, animation_id, timers, status,
    handler, shown, other_maze

maze_vars == <<rows, cols, grid, start, goal>>
edit_vars == <<edit_mode, relocated>>
local_vars == <<queue, visited, parent, backward_queue, backward_visited,
                backward_parent, heap, g_score, counter, nodes_explored,
                explored_cells, meeting_point, is_forward_turn, current>>
vars == <<rows, cols, grid, start, goal, edit_mode, relocated, algo, pc,
          queue, visited, parent, backward_queue, backward_visited,
          backward_parent, heap, g_score, counter, nodes_explored,
          explored_cells, meeting_point, is_forward_turn, current,
          ret, pops, yielded, text, compare, suspended,
          animation_running, animation_generator, animation_id, timers,
          status, handler, shown, other_maze>>
gui_vars == <<animation_running, animation_generator, animation_id, timers,
              status, handler, shown, other_maze>>
caller_vars == <<text, compare, suspended, gui_vars>>

----------------------------------------------------------------------------
(* Maze *)

Tags == {"#", ".", "S", "G"}

Cells(r, c) == (0 .. r - 1) \X (0 .. c - 1)

\* The cells of the grid in the order _find_start_goal scans them.
RECURSIVE scan_order(_, _, _)
scan_order(r, c, i) ==
    IF i >= r * c THEN <<>>
    ELSE << <<i \div c, i % c>> >> \o scan_order(r, c, i + 1)

\* _find_start_goal: the last 'S' (resp. 'G') of the scan is recorded; the
\* field keeps its previous value (None in a fresh Maze) when there is none.
RECURSIVE find_last(_, _, _, _)
find_last(g, order, tag, found) ==
    IF order = <<>> THEN found
    ELSE find_last(g, Tail(order), tag,
                   IF g[Head(order)] = tag THEN Head(order) ELSE found)

in_bounds(row, col) == 0 <= row /\ row < rows /\ 0 <= col /\ col < cols

is_valid(row, col) ==
    IF in_bounds(row, col) THEN grid[<<row, col>>] # "#" ELSE FALSE

\* The four moves with East before West.
directions_east_first == << <<-1, 0>>, <<1, 0>>, <<0, 1>>, <<0, -1>> >>

directions == << <<-1, 0>>, <<1, 0>>, <<0, -1>>, <<0, 1>> >>

get_neighbors(row, col) ==
    LET moved == [i \in 1 .. 4 |->
                    <<row + directions[i][1], col + directions[i][2]>>]
    IN SelectSeq(moved, LAMBDA p : is_valid(p[1], p[2]))

get_cell(row, col) == IF in_bounds(row, col) THEN grid[<<row, col>>] ELSE None

\* set_cell without the two "Clear old ..." blocks: the cell that was Start
\* (resp. Goal) keeps its tag when the tag is assigned to another cell.
set_cell_no_clear(row, col, value) ==
    IF in_bounds(row, col)
    THEN LET old_value == grid[<<row, col>>]
             assigned == [grid EXCEPT ![<<row, col>>] = value]
         IN /\ grid' = assigned
            /\ relocated' = FALSE
            /\ start' = IF value = "S" THEN <<row, col>>
                        ELSE IF value # "G" /\ old_value = "S" THEN None
                        ELSE start
            /\ goal' = IF value = "G" THEN <<row, col>>
                       ELSE IF value # "S" /\ old_value = "G" THEN None
                       ELSE goal
    ELSE UNCHANGED <<grid, start, goal, relocated>>

\* Maze.set_cell.  A call out of bounds changes nothing.
set_cell(row, col, value) ==
    IF in_bounds(row, col)
    THEN LET old_value == grid[<<row, col>>]
             assigned == [grid EXCEPT ![<<row, col>>] = value]
             \* "Clear old start if exists", resp. goal
             clears(old, tag) ==
                 old # None /\ old # <<row, col>> /\ assigned[old] = tag
             cleared(old, tag) ==
                 IF clears(old, tag) THEN [assigned EXCEPT ![old] = "."]
                 ELSE assigned
         IN IF value = "S"
            THEN /\ grid' = cleared(start, "S")
                 /\ relocated' = clears(start, "S")
                 /\ start' = <<row, col>>
                 /\ UNCHANGED goal
            ELSE IF value = "G"
            THEN /\ grid' = cleared(goal, "G")
                 /\ relocated' = clears(goal, "G")
                 /\ goal' = <<row, col>>
                 /\ UNCHANGED start
            ELSE IF old_value = "S"
            THEN /\ grid' = assigned
                 /\ relocated' = FALSE
                 /\ start' = None
                 /\ UNCHANGED goal
            ELSE IF old_value = "G"
            THEN /\ grid' = assigned
                 /\ relocated' = FALSE
                 /\ goal' = None
                 /\ UNCHANGED start
            ELSE /\ grid' = assigned
                 /\ relocated' = FALSE
                 /\ UNCHANGED <<start, goal>>
    ELSE UNCHANGED <<grid, start, goal, relocated>>

----------------------------------------------------------------------------
(* Helpers of the searches *)

basic_vars == <<queue, visited, parent>>
bidir_vars == <<backward_queue, backward_visited, backward_parent,
                meeting_point, is_forward_turn>>
astar_vars == <<heap, g_score, counter>>
count_vars == <<nodes_explored, explored_cells>>

\* dict[k] = v
put(d, k, v) == [x \in DOMAIN d \cup {k} |-> IF x = k THEN v ELSE d[x]]

\* dict.get(k)
get(d, k) == IF k \in DOMAIN d THEN d[k] ELSE None

empty_dict == [x \in {} |-> None]

\* "not x" for x a position or None
absent(p) == p = None

\* Mutant: the deque is popped at the wrong end.
popleft_right(q) == <<q[Len(q)], SubSeq(q, 1, Len(q) - 1)>>

\* deque.popleft(): <<the element, the rest>>
popleft(q) == <<Head(q), Tail(q)>>

\* list.pop(): <<the element, the rest>>
pop(q) == <<q[Len(q)], SubSeq(q, 1, Len(q) - 1)>>

RECURSIVE reverse(_)
reverse(s) == IF s = <<>> THEN <<>> ELSE reverse(Tail(s)) \o <<Head(s)>>

\* The loop "while current is not None: path.append(current);
\* current = parent.get(current)".
RECURSIVE walk(_, _)
walk(par, cur) ==
    IF cur = None THEN <<>> ELSE <<cur>> \o walk(par, get(par, cur))

reconstruct_path(par, s, g) == reverse(walk(par, g))

\* Mutant: the squares of the differences are added.
manhattan_distance(pos1, pos2) ==
    LET abs(x) == IF x < 0 THEN -x ELSE x
    IN abs(pos1[1] - pos2[1]) + abs(pos1[2] - pos2[2])

\* Mutant: the neighbor loop with a break after its first push.
RECURSIVE push_unvisited_first_only(_, _, _)
push_unvisited_first_only(nbrs, cur, st) ==
    IF nbrs = <<>> THEN st
    ELSE LET n == Head(nbrs)
         IN IF n \in st.visited
            THEN push_unvisited_first_only(Tail(nbrs), cur, st)
            ELSE [queue |-> Append(st.queue, n),
                  visited |-> st.visited \cup {n},
                  parent |-> put(st.parent, n, cur)]

\* The neighbor loop of bfs and dfs: every neighbor not yet visited is marked,
\* given its parent and appended.  st is [queue, visited, parent].  (Here and
\* in the other loops, "rest \in {Tail(nbrs)}, s \in {after}" names what is
\* left to iterate over and the state after one iteration, so that the next
\* iteration starts from their values.)
RECURSIVE push_unvisited(_, _, _)
push_unvisited(nbrs, cur, st) ==
    IF nbrs = <<>> THEN st
    ELSE LET n == Head(nbrs)
             after == IF n \in st.visited THEN st
                      ELSE [queue |-> Append(st.queue, n),
                            visited |-> st.visited \cup {n},
                            parent |-> put(st.parent, n, cur)]
         IN CHOOSE r \in {push_unvisited(rest, cur, s) :
                             rest \in {Tail(nbrs)}, s \in {after}} : TRUE

no_locals ==
    /\ queue' = <<>> /\ visited' = {} /\ parent' = empty_dict
    /\ backward_queue' = <<>> /\ backward_visited' = {}
    /\ backward_parent' = empty_dict
    /\ heap' = {} /\ g_score' = empty_dict /\ counter' = 0
    /\ nodes_explored' = 0 /\ explored_cells' = {}
    /\ meeting_point' = None /\ is_forward_turn' = TRUE /\ current' = None

\* return (path, nodes_explored, runtime, explored_cells): the frame is
\* dropped.
return(path, n, cells) ==
    /\ ret' = <<path, n, cells>>
    /\ pc' = "returned"
    /\ no_locals

\* The setup with a visited set that outlives the call, as a module-level
\* set that is never cleared would: the cells the previous call explored are
\* still in it.
seed_frontier_stale_visited ==
    /\ queue' = <<start>>
    /\ visited' = {start} \cup (IF ret = None THEN {} ELSE ret[3])
    /\ parent' = put(empty_dict, start, None)
    /\ nodes_explored' = 0
    /\ explored_cells' = {}
    /\ UNCHANGED <<bidir_vars, astar_vars, current>>

\* The setup shared by bfs, dfs and dfs_optimized.
seed_frontier ==
    /\ queue' = <<start>>
    /\ visited' = {start}
    /\ parent' = put(empty_dict, start, None)
    /\ nodes_explored' = 0
    /\ explored_cells' = {}
    /\ UNCHANGED <<bidir_vars, astar_vars, current>>

----------------------------------------------------------------------------
(* bfs *)

\* Mutant: only Start is checked.
bfs_call_start_only ==
    /\ pc = "idle"
    /\ algo' = "bfs"
    /\ pops' = 0
    /\ IF absent(start)
       THEN return(None, 0, {})
       ELSE seed_frontier /\ pc' = "loop" /\ UNCHANGED ret
    /\ UNCHANGED <<maze_vars, edit_vars, caller_vars, yielded>>

bfs_call ==
    /\ pc = "idle"
    /\ algo' = "bfs"
    /\ pops' = 0
    /\ IF absent(start) \/ absent(goal)
       THEN return(None, 0, {})
       ELSE seed_frontier /\ pc' = "loop" /\ UNCHANGED ret
    /\ UNCHANGED <<maze_vars, edit_vars, caller_vars, yielded>>

\* bfs that marks the cell it pops in the grid itself, as an in-place
\* "visited" mark would.
bfs_loop_marks_grid ==
    /\ algo = "bfs" /\ pc = "loop" /\ queue # <<>>
    /\ pops' = pops + 1
    /\ \E cur \in {popleft(queue)[1]} :
       \E st \in {push_unvisited(get_neighbors(cur[1], cur[2]), cur,
                     [queue |-> popleft(queue)[2], visited |-> visited,
                      parent |-> parent])} :
          /\ grid' = [grid EXCEPT ![cur] = "."]
          /\ IF cur = goal
             THEN return(reconstruct_path(parent, start, goal),
                         nodes_explored + 1, explored_cells \cup {cur})
             ELSE /\ current' = cur
                  /\ nodes_explored' = nodes_explored + 1
                  /\ explored_cells' = explored_cells \cup {cur}
                  /\ queue' = st.queue
                  /\ visited' = st.visited
                  /\ parent' = st.parent
                  /\ UNCHANGED <<bidir_vars, astar_vars, ret, pc>>
    /\ UNCHANGED <<rows, cols, start, goal, edit_vars, caller_vars, algo,
                   yielded>>

bfs_loop ==
    /\ algo = "bfs" /\ pc = "loop" /\ queue # <<>>
    /\ pops' = pops + 1
    /\ \E cur \in {popleft(queue)[1]} :
       \E st \in {push_unvisited(get_neighbors(cur[1], cur[2]), cur,
                     [queue |-> popleft(queue)[2], visited |-> visited,
                      parent |-> parent])} :
          IF cur = goal
          THEN return(reconstruct_path(parent, start, goal),
                      nodes_explored + 1, explored_cells \cup {cur})
          ELSE /\ current' = cur
               /\ nodes_explored' = nodes_explored + 1
               /\ explored_cells' = explored_cells \cup {cur}
               /\ queue' = st.queue
               /\ visited' = st.visited
               /\ parent' = st.parent
               /\ UNCHANGED <<bidir_vars, astar_vars, ret, pc>>
    /\ UNCHANGED <<maze_vars, edit_vars, caller_vars, algo, yielded>>

bfs_exit ==
    /\ algo = "bfs" /\ pc = "loop" /\ queue = <<>>
    /\ return(None, nodes_explored, explored_cells)
    /\ UNCHANGED <<maze_vars, edit_vars, caller_vars, algo, pops, yielded>>

----------------------------------------------------------------------------
(* dfs: queue is the list "stack" *)

dfs_call ==
    /\ pc = "idle"
    /\ algo' = "dfs"
    /\ pops' = 0
    /\ IF absent(start) \/ absent(goal)
       THEN return(None, 0, {})
       ELSE seed_frontier /\ pc' = "loop" /\ UNCHANGED ret
    /\ UNCHANGED <<maze_vars, edit_vars, caller_vars, yielded>>

dfs_loop ==
    /\ algo = "dfs" /\ pc = "loop" /\ queue # <<>>
    /\ pops' = pops + 1
    /\ \E cur \in {pop(queue)[1]} :
       \E st \in {push_unvisited(get_neighbors(cur[1], cur[2]), cur,
                     [queue |-> pop(queue)[2], visited |-> visited,
                      parent |-> parent])} :
          IF cur = goal
          THEN return(reconstruct_path(parent, start, goal),
                      nodes_explored + 1, explored_cells \cup {cur})
          ELSE /\ current' = cur
               /\ nodes_explored' = nodes_explored + 1
               /\ explored_cells' = explored_cells \cup {cur}
               /\ queue' = st.queue
               /\ visited' = st.visited
               /\ parent' = st.parent
               /\ UNCHANGED <<bidir_vars, astar_vars, ret, pc>>
    /\ UNCHANGED <<maze_vars, edit_vars, caller_vars, algo, yielded>>

dfs_exit ==
    /\ algo = "dfs" /\ pc = "loop" /\ queue = <<>>
    /\ return(None, nodes_explored, explored_cells)
    /\ UNCHANGED <<maze_vars, edit_vars, caller_vars, algo, pops, yielded>>

----------------------------------------------------------------------------
(* a_star: heap is the set of the entries <<f_score, counter, position>>   *)
(* in the heapq list; heappop takes the smallest tuple.                    *)

tuple_less(a, b) == a[1] < b[1] \/ (a[1] = b[1] /\ a[2] < b[2])

\* A pop that takes, among the entries of the smallest f, the one pushed
\* last.
heappop_newest_first(h) ==
    LET e == CHOOSE x \in h : \A y \in h \ {x} :
                 x[1] < y[1] \/ (x[1] = y[1] /\ x[2] > y[2])
    IN <<e, h \ {e}>>

\* A pop of the entry a max-heap would give: the greatest (f, counter).
heappop_largest(h) ==
    LET e == CHOOSE x \in h : \A y \in h \ {x} : tuple_less(y, x)
    IN <<e, h \ {e}>>

heappop(h) ==
    LET e == CHOOSE x \in h : \A y \in h \ {x} : tuple_less(x, y)
    IN <<e, h \ {e}>>

\* The neighbor loop of a_star.  st is [heap, g_score, parent, counter]; vis
\* is the set visited, which the loop does not change.
RECURSIVE relax(_, _, _, _)
relax(nbrs, cur, vis, st) ==
    IF nbrs = <<>> THEN st
    ELSE LET n == Head(nbrs)
             tentative_g == st.g_score[cur] + 1
             f_score == tentative_g + manhattan_distance(n, goal)
             after ==
                 IF n \in vis THEN st
                 ELSE IF n \notin DOMAIN st.g_score
                            \/ tentative_g < st.g_score[n]
                 THEN [heap |-> st.heap \cup {<<f_score, st.counter + 1, n>>},
                       g_score |-> put(st.g_score, n, tentative_g),
                       parent |-> put(st.parent, n, cur),
                       counter |-> st.counter + 1]
                 ELSE st
         IN CHOOSE r \in {relax(rest, cur, vis, s) :
                             rest \in {Tail(nbrs)}, s \in {after}} : TRUE

seed_heap ==
    /\ counter' = 0
    /\ heap' = {<<0, 0, start>>}
    /\ g_score' = put(empty_dict, start, 0)
    /\ parent' = put(empty_dict, start, None)
    /\ visited' = {}
    /\ nodes_explored' = 0
    /\ explored_cells' = {}
    /\ UNCHANGED <<queue, bidir_vars, current>>

a_star_call ==
    /\ pc = "idle"
    /\ algo' = "a_star"
    /\ pops' = 0
    /\ IF absent(start) \/ absent(goal)
       THEN return(None, 0, {})
       ELSE seed_heap /\ pc' = "loop" /\ UNCHANGED ret
    /\ UNCHANGED <<maze_vars, edit_vars, caller_vars, yielded>>

\* a_star with "if tentative_g < g_score[neighbor]" for the test of line 164:
\* the lookup of a neighbor that has no g_score yet raises KeyError, and the
\* call is left without a return.
a_star_loop_keyerror ==
    /\ algo = "a_star" /\ pc = "loop" /\ heap # {}
    /\ pops' = pops + 1
    /\ \E cur \in {heappop(heap)[1][3]} :
       \E vis \in {visited \cup {cur}} :
       \E nbrs \in {get_neighbors(cur[1], cur[2])} :
       \E st \in {relax(nbrs, cur, vis,
                     [heap |-> heappop(heap)[2], g_score |-> g_score,
                      parent |-> parent, counter |-> counter])} :
          IF cur \in visited
          THEN /\ heap' = heappop(heap)[2]
               /\ current' = cur
               /\ UNCHANGED <<queue, visited, parent, g_score, counter,
                              count_vars, bidir_vars, ret, pc>>
          ELSE IF cur = goal
          THEN return(reconstruct_path(parent, start, goal),
                      nodes_explored + 1, explored_cells \cup {cur})
          ELSE /\ \A i \in 1 .. Len(nbrs) :
                     nbrs[i] \in vis \/ nbrs[i] \in DOMAIN g_score
               /\ current' = cur
               /\ visited' = vis
               /\ nodes_explored' = nodes_explored + 1
               /\ explored_cells' = explored_cells \cup {cur}
               /\ heap' = st.heap
               /\ g_score' = st.g_score
               /\ parent' = st.parent
               /\ counter' = st.counter
               /\ UNCHANGED <<queue, bidir_vars, ret, pc>>
    /\ UNCHANGED <<maze_vars, edit_vars, caller_vars, algo, yielded>>

a_star_loop ==
    /\ algo = "a_star" /\ pc = "loop" /\ heap # {}
    /\ pops' = pops + 1
    /\ \E cur \in {heappop(heap)[1][3]} :
       \E vis \in {visited \cup {cur}} :
       \E st \in {relax(get_neighbors(cur[1], cur[2]), cur, vis,
                     [heap |-> heappop(heap)[2], g_score |-> g_score,
                      parent |-> parent, counter |-> counter])} :
          IF cur \in visited
          THEN /\ heap' = heappop(heap)[2]
               /\ current' = cur
               /\ UNCHANGED <<queue, visited, parent, g_score, counter,
                              count_vars, bidir_vars, ret, pc>>
          ELSE IF cur = goal
          THEN return(reconstruct_path(parent, start, goal),
                      nodes_explored + 1, explored_cells \cup {cur})
          ELSE /\ current' = cur
               /\ visited' = vis
               /\ nodes_explored' = nodes_explored + 1
               /\ explored_cells' = explored_cells \cup {cur}
               /\ heap' = st.heap
               /\ g_score' = st.g_score
               /\ parent' = st.parent
               /\ counter' = st.counter
               /\ UNCHANGED <<queue, bidir_vars, ret, pc>>
    /\ UNCHANGED <<maze_vars, edit_vars, caller_vars, algo, yielded>>

a_star_exit ==
    /\ algo = "a_star" /\ pc = "loop" /\ heap = {}
    /\ return(None, nodes_explored, explored_cells)
    /\ UNCHANGED <<maze_vars, edit_vars, caller_vars, algo, pops, yielded>>

----------------------------------------------------------------------------
(* dfs_optimized: queue is the list "stack" *)

\* Mutant: the insertion of an ascending sort, nearest first.
RECURSIVE insert_asc(_, _)
insert_asc(sorted, x) ==
    IF sorted = <<>> THEN <<x>>
    ELSE IF Head(sorted)[1] > x[1] THEN <<x>> \o sorted
    ELSE <<Head(sorted)>> \o insert_asc(Tail(sorted), x)

\* list.sort(key=lambda x: x[0], reverse=True) is stable: entries of equal
\* distance keep their order.
RECURSIVE insert_desc(_, _)
insert_desc(sorted, x) ==
    IF sorted = <<>> THEN <<x>>
    ELSE IF Head(sorted)[1] < x[1] THEN <<x>> \o sorted
    ELSE <<Head(sorted)>> \o insert_desc(Tail(sorted), x)

RECURSIVE sort_desc(_, _)
sort_desc(s, acc) ==
    IF s = <<>> THEN acc
    ELSE CHOOSE r \in {sort_desc(rest, a) :
                         rest \in {Tail(s)},
                         a \in {insert_desc(acc, Head(s))}} : TRUE

\* neighbors_with_distance: the unvisited neighbors, each with its Manhattan
\* distance to the goal, sorted furthest first.
neighbors_with_distance(cur, vis) ==
    LET abs(x) == IF x < 0 THEN -x ELSE x
        unvisited == SelectSeq(get_neighbors(cur[1], cur[2]),
                               LAMBDA n : n \notin vis)
        with_distance == [i \in 1 .. Len(unvisited) |->
                            <<abs(unvisited[i][1] - goal[1])
                                + abs(unvisited[i][2] - goal[2]),
                              unvisited[i]>>]
    IN sort_desc(with_distance, <<>>)

\* The push loop of dfs_optimized.  st is [queue, visited, parent].
RECURSIVE push_all(_, _, _)
push_all(nwd, cur, st) ==
    IF nwd = <<>> THEN st
    ELSE LET n == Head(nwd)[2]
             after == [queue |-> Append(st.queue, n),
                       visited |-> st.visited \cup {n},
                       parent |-> put(st.parent, n, cur)]
         IN CHOOSE r \in {push_all(rest, cur, s) :
                             rest \in {Tail(nwd)}, s \in {after}} : TRUE

dfs_optimized_call ==
    /\ pc = "idle"
    /\ algo' = "dfs_optimized"
    /\ pops' = 0
    /\ IF absent(start) \/ absent(goal)
       THEN return(None, 0, {})
       ELSE seed_frontier /\ pc' = "loop" /\ UNCHANGED ret
    /\ UNCHANGED <<maze_vars, edit_vars, caller_vars, yielded>>

dfs_optimized_loop ==
    /\ algo = "dfs_optimized" /\ pc = "loop" /\ queue # <<>>
    /\ pops' = pops + 1
    /\ \E cur \in {pop(queue)[1]} :
       \E nwd \in {neighbors_with_distance(cur, visited)} :
       \E st \in {push_all(nwd, cur,
                     [queue |-> pop(queue)[2], visited |-> visited,
                      parent |-> parent])} :
          IF cur = goal
          THEN return(reconstruct_path(parent, start, goal),
                      nodes_explored + 1, explored_cells \cup {cur})
          ELSE /\ current' = cur
               /\ nodes_explored' = nodes_explored + 1
               /\ explored_cells' = explored_cells \cup {cur}
               /\ queue' = st.queue
               /\ visited' = st.visited
               /\ parent' = st.parent
               /\ UNCHANGED <<bidir_vars, astar_vars, ret, pc>>
    /\ UNCHANGED <<maze_vars, edit_vars, caller_vars, algo, yielded>>

dfs_optimized_exit ==
    /\ algo = "dfs_optimized" /\ pc = "loop" /\ queue = <<>>
    /\ return(None, nodes_explored, explored_cells)
    /\ UNCHANGED <<maze_vars, edit_vars, caller_vars, algo, pops, yielded>>

----------------------------------------------------------------------------
(* bfs_bidirectional: queue, visited, parent are forward_queue,            *)
(* forward_visited, forward_parent.  One iteration of the while loop is    *)
(* the forward step followed by the backward step.                         *)

\* Mutant: the neighbor loop with appendleft for append; the queues are
\* then popped last in, first out, and each side goes depth first.
RECURSIVE push_until_met_appendleft(_, _, _, _)
push_until_met_appendleft(nbrs, cur, other_visited, st) ==
    IF nbrs = <<>> \/ st.meeting_point # None THEN st
    ELSE LET n == Head(nbrs)
             after == IF n \in st.visited THEN st
                      ELSE [queue |-> <<n>> \o st.queue,
                            visited |-> st.visited \cup {n},
                            parent |-> put(st.parent, n, cur),
                            meeting_point |->
                                IF n \in other_visited THEN n ELSE None]
         IN CHOOSE r \in {push_until_met_appendleft(rest, cur,
                                                    other_visited, s) :
                             rest \in {Tail(nbrs)}, s \in {after}} : TRUE

\* Mutant: the neighbor loop without its break; the neighbors after the
\* first one the other side has visited are pushed too.
RECURSIVE push_until_met_no_break(_, _, _, _)
push_until_met_no_break(nbrs, cur, other_visited, st) ==
    IF nbrs = <<>> THEN st
    ELSE LET n == Head(nbrs)
             after == IF n \in st.visited THEN st
                      ELSE [queue |-> Append(st.queue, n),
                            visited |-> st.visited \cup {n},
                            parent |-> put(st.parent, n, cur),
                            meeting_point |->
                                IF n \in other_visited THEN n
                                ELSE st.meeting_point]
         IN CHOOSE r \in {push_until_met_no_break(rest, cur, other_visited, s) :
                             rest \in {Tail(nbrs)}, s \in {after}} : TRUE

\* The neighbor loop of one side, with its break at the first neighbor the
\* other side has visited.  st is [queue, visited, parent, meeting_point].
RECURSIVE push_until_met(_, _, _, _)
push_until_met(nbrs, cur, other_visited, st) ==
    IF nbrs = <<>> \/ st.meeting_point # None THEN st
    ELSE LET n == Head(nbrs)
             after == IF n \in st.visited THEN st
                      ELSE [queue |-> Append(st.queue, n),
                            visited |-> st.visited \cup {n},
                            parent |-> put(st.parent, n, cur),
                            meeting_point |->
                                IF n \in other_visited THEN n ELSE None]
         IN CHOOSE r \in {push_until_met(rest, cur, other_visited, s) :
                             rest \in {Tail(nbrs)}, s \in {after}} : TRUE

\* Mutant: the meeting point is not skipped in the backward chain.
full_path_twice(fparent, bparent, meeting) ==
    reverse(walk(fparent, meeting)) \o walk(bparent, meeting)

\* path_forward + path_backward
full_path(fparent, bparent, meeting) ==
    reverse(walk(fparent, meeting)) \o walk(bparent, get(bparent, meeting))

seed_both ==
    /\ queue' = <<start>>
    /\ visited' = {start}
    /\ parent' = put(empty_dict, start, None)
    /\ backward_queue' = <<goal>>
    /\ backward_visited' = {goal}
    /\ backward_parent' = put(empty_dict, goal, None)
    /\ nodes_explored' = 0
    /\ explored_cells' = {}
    /\ meeting_point' = None
    /\ UNCHANGED <<astar_vars, current>>

bfs_bidirectional_call ==
    /\ pc = "idle"
    /\ algo' = "bfs_bidirectional"
    /\ pops' = 0
    /\ IF absent(start) \/ absent(goal)
       THEN return(None, 0, {})
       ELSE seed_both /\ pc' = "loop" /\ UNCHANGED <<ret, is_forward_turn>>
    /\ UNCHANGED <<maze_vars, edit_vars, caller_vars, yielded>>

\* Mutant: the loop goes on while either queue has an entry, as the
\* generator variant's does.
while_either == queue # <<>> \/ backward_queue # <<>>

\* "while forward_queue and backward_queue"
while_both == queue # <<>> /\ backward_queue # <<>>

\* "if forward_queue": the forward step
bfs_bidirectional_forward ==
    /\ algo = "bfs_bidirectional" /\ pc = "loop"
    /\ while_both
    /\ IF queue # <<>>
       THEN
         /\ pops' = pops + 1
         /\ \E cur \in {popleft(queue)[1]} :
            \E cells \in {explored_cells \cup {cur}} :
            \E st \in {push_until_met(get_neighbors(cur[1], cur[2]), cur,
                          backward_visited,
                          [queue |-> popleft(queue)[2], visited |-> visited,
                           parent |-> parent, meeting_point |-> None])} :
               IF cur \in backward_visited
               THEN return(full_path(parent, backward_parent, cur),
                           nodes_explored + 1, cells)
               ELSE IF st.meeting_point # None
               THEN return(full_path(st.parent, backward_parent,
                                     st.meeting_point),
                           nodes_explored + 1, cells)
               ELSE /\ current' = cur
                    /\ nodes_explored' = nodes_explored + 1
                    /\ explored_cells' = cells
                    /\ queue' = st.queue
                    /\ visited' = st.visited
                    /\ parent' = st.parent
                    /\ pc' = "backward"
                    /\ UNCHANGED <<bidir_vars, astar_vars, ret>>
       ELSE /\ pc' = "backward"
            /\ UNCHANGED <<local_vars, ret, pops>>
    /\ UNCHANGED <<maze_vars, edit_vars, caller_vars, algo, yielded>>

\* Mutant: the backward step without "explored_cells.add(current)".
bfs_bidirectional_backward_no_add ==
    /\ algo = "bfs_bidirectional" /\ pc = "backward"
    /\ IF backward_queue # <<>> /\ meeting_point = None
       THEN
         /\ pops' = pops + 1
         /\ \E cur \in {popleft(backward_queue)[1]} :
            \E cells \in {explored_cells} :
            \E st \in {push_until_met(get_neighbors(cur[1], cur[2]), cur,
                          visited,
                          [queue |-> popleft(backward_queue)[2],
                           visited |-> backward_visited,
                           parent |-> backward_parent,
                           meeting_point |-> None])} :
               IF cur \in visited
               THEN return(full_path(parent, backward_parent, cur),
                           nodes_explored + 1, cells)
               ELSE IF st.meeting_point # None
               THEN return(full_path(parent, st.parent, st.meeting_point),
                           nodes_explored + 1, cells)
               ELSE /\ current' = cur
                    /\ nodes_explored' = nodes_explored + 1
                    /\ explored_cells' = cells
                    /\ backward_queue' = st.queue
                    /\ backward_visited' = st.visited
                    /\ backward_parent' = st.parent
                    /\ pc' = "loop"
                    /\ UNCHANGED <<basic_vars, astar_vars, meeting_point,
                                   is_forward_turn, ret>>
       ELSE /\ pc' = "loop"
            /\ UNCHANGED <<local_vars, ret, pops>>
    /\ UNCHANGED <<maze_vars, edit_vars, caller_vars, algo, yielded>>

\* "if backward_queue and not meeting_point": the backward step
bfs_bidirectional_backward ==
    /\ algo = "bfs_bidirectional" /\ pc = "backward"
    /\ IF backward_queue # <<>> /\ meeting_point = None
       THEN
         /\ pops' = pops + 1
         /\ \E cur \in {popleft(backward_queue)[1]} :
            \E cells \in {explored_cells \cup {cur}} :
            \E st \in {push_until_met(get_neighbors(cur[1], cur[2]), cur,
                          visited,
                          [queue |-> popleft(backward_queue)[2],
                           visited |-> backward_visited,
                           parent |-> backward_parent,
                           meeting_point |-> None])} :
               IF cur \in visited
               THEN return(full_path(parent, backward_parent, cur),
                           nodes_explored + 1, cells)
               ELSE IF st.meeting_point # None
               THEN return(full_path(parent, st.parent, st.meeting_point),
                           nodes_explored + 1, cells)
               ELSE /\ current' = cur
                    /\ nodes_explored' = nodes_explored + 1
                    /\ explored_cells' = cells
                    /\ backward_queue' = st.queue
                    /\ backward_visited' = st.visited
                    /\ backward_parent' = st.parent
                    /\ pc' = "loop"
                    /\ UNCHANGED <<basic_vars, astar_vars, meeting_point,
                                   is_forward_turn, ret>>
       ELSE /\ pc' = "loop"
            /\ UNCHANGED <<local_vars, ret, pops>>
    /\ UNCHANGED <<maze_vars, edit_vars, caller_vars, algo, yielded>>

\* The while loop ends with meeting_point None.
bfs_bidirectional_exit ==
    /\ algo = "bfs_bidirectional" /\ pc = "loop"
    /\ ~while_both
    /\ return(None, nodes_explored, explored_cells)
    /\ UNCHANGED <<maze_vars, edit_vars, caller_vars, algo, pops, yielded>>

----------------------------------------------------------------------------
(* The generator variants.  A snapshot is the tuple                        *)
(* <<current, explored_cells.copy(), path, is_goal>> a generator yields;   *)
(* pc names the yield at which the generator is suspended.                 *)

yield(cur, cells, path, is_goal, at) ==
    /\ yielded' = Append(yielded, <<cur, cells, path, is_goal>>)
    /\ pc' = at

\* The generator returns: next() raises StopIteration.
stop_iteration ==
    /\ pc' = "exhausted"
    /\ no_locals
    /\ UNCHANGED yielded

----------------------------------------------------------------------------
(* bfs_animated *)

\* Calling the generator function runs none of its body.
bfs_animated_call ==
    /\ pc = "returned" /\ algo = "bfs"
    /\ algo' = "bfs_animated"
    /\ pc' = "created"
    /\ yielded' = <<>>
    /\ UNCHANGED <<maze_vars, edit_vars, caller_vars, local_vars, ret, pops>>

\* The top of the while loop, up to the next yield.  st is
\* [queue, visited, parent].
bfs_animated_top(st, cells) ==
    IF st.queue # <<>>
    THEN LET cur == popleft(st.queue)[1]
         IN /\ current' = cur
            /\ queue' = popleft(st.queue)[2]
            /\ visited' = st.visited
            /\ parent' = st.parent
            /\ explored_cells' = cells \cup {cur}
            /\ yield(cur, cells \cup {cur},
                     reconstruct_path(st.parent, start, cur), FALSE,
                     "yield_pop")
    ELSE /\ yield(None, cells, <<>>, FALSE, "yield_none")
         /\ queue' = st.queue
         /\ visited' = st.visited
         /\ parent' = st.parent
         /\ explored_cells' = cells
         /\ UNCHANGED current

\* bfs_animated without the return that follows the yield of the final
\* path: resumed after that yield, the generator goes on with the neighbors
\* of the goal and the rest of the queue.
bfs_animated_next_no_return ==
    /\ algo = "bfs_animated"
    /\ pc \in {"created", "yield_pop", "yield_goal", "yield_none"}
    /\ IF pc = "created"
       THEN IF absent(start) \/ absent(goal)
            THEN stop_iteration
            ELSE /\ bfs_animated_top(
                      [queue |-> <<start>>, visited |-> {start},
                       parent |-> put(empty_dict, start, None)], {})
                 /\ UNCHANGED <<bidir_vars, astar_vars, nodes_explored>>
       ELSE IF pc = "yield_pop" /\ current = goal
       THEN /\ yield(current, explored_cells,
                     reconstruct_path(parent, start, goal), TRUE,
                     "yield_goal")
            /\ UNCHANGED local_vars
       ELSE IF pc \in {"yield_pop", "yield_goal"}
       THEN /\ bfs_animated_top(push_unvisited(get_neighbors(current[1], current[2]),
                 current,
                 [queue |-> queue, visited |-> visited,
                  parent |-> parent]), explored_cells)
            /\ UNCHANGED <<bidir_vars, astar_vars, nodes_explored>>
       ELSE stop_iteration
    /\ UNCHANGED <<maze_vars, edit_vars, caller_vars, algo, ret, pops>>

\* next(generator): from where the generator is suspended to its next yield,
\* or to its end.
bfs_animated_next ==
    /\ algo = "bfs_animated"
    /\ pc \in {"created", "yield_pop", "yield_goal", "yield_none"}
    /\ IF pc = "created"
       THEN IF absent(start) \/ absent(goal)
            THEN stop_iteration
            ELSE /\ bfs_animated_top(
                      [queue |-> <<start>>, visited |-> {start},
                       parent |-> put(empty_dict, start, None)], {})
                 /\ UNCHANGED <<bidir_vars, astar_vars, nodes_explored>>
       ELSE IF pc = "yield_pop"
       THEN IF current = goal
            THEN /\ yield(current, explored_cells,
                          reconstruct_path(parent, start, goal), TRUE,
                          "yield_goal")
                 /\ UNCHANGED local_vars
            ELSE /\ bfs_animated_top(push_unvisited(get_neighbors(current[1], current[2]),
                      current,
                      [queue |-> queue, visited |-> visited,
                       parent |-> parent]), explored_cells)
                 /\ UNCHANGED <<bidir_vars, astar_vars, nodes_explored>>
       ELSE stop_iteration
    /\ UNCHANGED <<maze_vars, edit_vars, caller_vars, algo, ret, pops>>

----------------------------------------------------------------------------
(* dfs_animated: queue is the list "stack" *)

\* Calling the generator function runs none of its body.
dfs_animated_call ==
    /\ pc = "returned" /\ algo = "dfs"
    /\ algo' = "dfs_animated"
    /\ pc' = "created"
    /\ yielded' = <<>>
    /\ UNCHANGED <<maze_vars, edit_vars, caller_vars, local_vars, ret, pops>>

\* The top of the while loop, up to the next yield.  st is
\* [queue, visited, parent].
dfs_animated_top(st, cells) ==
    IF st.queue # <<>>
    THEN LET cur == pop(st.queue)[1]
         IN /\ current' = cur
            /\ queue' = pop(st.queue)[2]
            /\ visited' = st.visited
            /\ parent' = st.parent
            /\ explored_cells' = cells \cup {cur}
            /\ yield(cur, cells \cup {cur},
                     reconstruct_path(st.parent, start, cur), FALSE,
                     "yield_pop")
    ELSE /\ yield(None, cells, <<>>, FALSE, "yield_none")
         /\ queue' = st.queue
         /\ visited' = st.visited
         /\ parent' = st.parent
         /\ explored_cells' = cells
         /\ UNCHANGED current

\* next(generator): from where the generator is suspended to its next yield,
\* or to its end.
dfs_animated_next ==
    /\ algo = "dfs_animated"
    /\ pc \in {"created", "yield_pop", "yield_goal", "yield_none"}
    /\ IF pc = "created"
       THEN IF absent(start) \/ absent(goal)
            THEN stop_iteration
            ELSE /\ dfs_animated_top(
                      [queue |-> <<start>>, visited |-> {start},
                       parent |-> put(empty_dict, start, None)], {})
                 /\ UNCHANGED <<bidir_vars, astar_vars, nodes_explored>>
       ELSE IF pc = "yield_pop"
       THEN IF current = goal
            THEN /\ yield(current, explored_cells,
                          reconstruct_path(parent, start, goal), TRUE,
                          "yield_goal")
                 /\ UNCHANGED local_vars
            ELSE /\ dfs_animated_top(push_unvisited(get_neighbors(current[1], current[2]),
                      current,
                      [queue |-> queue, visited |-> visited,
                       parent |-> parent]), explored_cells)
                 /\ UNCHANGED <<bidir_vars, astar_vars, nodes_explored>>
       ELSE stop_iteration
    /\ UNCHANGED <<maze_vars, edit_vars, caller_vars, algo, ret, pops>>

----------------------------------------------------------------------------
(* dfs_optimized_animated: queue is the list "stack" *)

\* Calling the generator function runs none of its body.
dfs_optimized_animated_call ==
    /\ pc = "returned" /\ algo = "dfs_optimized"
    /\ algo' = "dfs_optimized_animated"
    /\ pc' = "created"
    /\ yielded' = <<>>
    /\ UNCHANGED <<maze_vars, edit_vars, caller_vars, local_vars, ret, pops>>

\* The top of the while loop, up to the next yield.  st is
\* [queue, visited, parent].
dfs_optimized_animated_top(st, cells) ==
    IF st.queue # <<>>
    THEN LET cur == pop(st.queue)[1]
         IN /\ current' = cur
            /\ queue' = pop(st.queue)[2]
            /\ visited' = st.visited
            /\ parent' = st.parent
            /\ explored_cells' = cells \cup {cur}
            /\ yield(cur, cells \cup {cur},
                     reconstruct_path(st.parent, start, cur), FALSE,
                     "yield_pop")
    ELSE /\ yield(None, cells, <<>>, FALSE, "yield_none")
         /\ queue' = st.queue
         /\ visited' = st.visited
         /\ parent' = st.parent
         /\ explored_cells' = cells
         /\ UNCHANGED current

\* next(generator): from where the generator is suspended to its next yield,
\* or to its end.
dfs_optimized_animated_next ==
    /\ algo = "dfs_optimized_animated"
    /\ pc \in {"created", "yield_pop", "yield_goal", "yield_none"}
    /\ IF pc = "created"
       THEN IF absent(start) \/ absent(goal)
            THEN stop_iteration
            ELSE /\ dfs_optimized_animated_top(
                      [queue |-> <<start>>, visited |-> {start},
                       parent |-> put(empty_dict, start, None)], {})
                 /\ UNCHANGED <<bidir_vars, astar_vars, nodes_explored>>
       ELSE IF pc = "yield_pop"
       THEN IF current = goal
            THEN /\ yield(current, explored_cells,
                          reconstruct_path(parent, start, goal), TRUE,
                          "yield_goal")
                 /\ UNCHANGED local_vars
            ELSE /\ dfs_optimized_animated_top(push_all(neighbors_with_distance(current, visited),
                      current,
                      [queue |-> queue, visited |-> visited,
                       parent |-> parent]), explored_cells)
                 /\ UNCHANGED <<bidir_vars, astar_vars, nodes_explored>>
       ELSE stop_iteration
    /\ UNCHANGED <<maze_vars, edit_vars, caller_vars, algo, ret, pops>>

----------------------------------------------------------------------------
(* a_star_animated *)

a_star_animated_call ==
    /\ pc = "returned" /\ algo = "a_star"
    /\ algo' = "a_star_animated"
    /\ pc' = "created"
    /\ yielded' = <<>>
    /\ UNCHANGED <<maze_vars, edit_vars, caller_vars, local_vars, ret, pops>>

\* "if current in visited: continue": the heap without the entries the loop
\* pops and discards before it pops an entry that is not visited.
RECURSIVE skip_visited(_, _)
skip_visited(h, vis) ==
    IF h = {} THEN h
    ELSE IF heappop(h)[1][3] \in vis THEN skip_visited(heappop(h)[2], vis)
    ELSE h

\* The top of the while loop, up to the next yield.  st is
\* [heap, g_score, parent, counter].
a_star_animated_top(st, vis, cells) ==
    LET h == skip_visited(st.heap, vis)
    IN /\ g_score' = st.g_score
       /\ parent' = st.parent
       /\ counter' = st.counter
       /\ IF h # {}
          THEN LET cur == heappop(h)[1][3]
               IN /\ current' = cur
                  /\ heap' = heappop(h)[2]
                  /\ visited' = vis \cup {cur}
                  /\ explored_cells' = cells \cup {cur}
                  /\ yield(cur, cells \cup {cur},
                           reconstruct_path(st.parent, start, cur), FALSE,
                           "yield_pop")
          ELSE /\ yield(None, cells, <<>>, FALSE, "yield_none")
               /\ heap' = h
               /\ visited' = vis
               /\ explored_cells' = cells
               /\ UNCHANGED current

a_star_animated_next ==
    /\ algo = "a_star_animated"
    /\ pc \in {"created", "yield_pop", "yield_goal", "yield_none"}
    /\ IF pc = "created"
       THEN IF absent(start) \/ absent(goal)
            THEN stop_iteration
            ELSE /\ a_star_animated_top(
                      [heap |-> {<<0, 0, start>>},
                       g_score |-> put(empty_dict, start, 0),
                       parent |-> put(empty_dict, start, None),
                       counter |-> 0], {}, {})
                 /\ UNCHANGED <<queue, bidir_vars, nodes_explored>>
       ELSE IF pc = "yield_pop"
       THEN IF current = goal
            THEN /\ yield(current, explored_cells,
                          reconstruct_path(parent, start, goal), TRUE,
                          "yield_goal")
                 /\ UNCHANGED local_vars
            ELSE /\ a_star_animated_top(
                      relax(get_neighbors(current[1], current[2]), current,
                            visited,
                            [heap |-> heap, g_score |-> g_score,
                             parent |-> parent, counter |-> counter]),
                      visited, explored_cells)
                 /\ UNCHANGED <<queue, bidir_vars, nodes_explored>>
       ELSE stop_iteration
    /\ UNCHANGED <<maze_vars, edit_vars, caller_vars, algo, ret, pops>>

----------------------------------------------------------------------------
(* bfs_bidirectional_animated: queue, visited, parent are the forward side *)

bfs_bidirectional_animated_call ==
    /\ pc = "returned" /\ algo = "bfs_bidirectional"
    /\ algo' = "bfs_bidirectional_animated"
    /\ pc' = "created"
    /\ yielded' = <<>>
    /\ UNCHANGED <<maze_vars, edit_vars, caller_vars, local_vars, ret, pops>>

\* "while forward_queue or backward_queue", up to the next yield.  A turn
\* whose side has an empty queue only flips is_forward_turn.  st is
\* [fq, fv, fp, bq, bv, bp]; turn is is_forward_turn.
bfs_bidirectional_animated_top(st, turn, cells) ==
    LET side == IF (turn /\ st.fq # <<>>) \/ (~turn /\ st.bq # <<>>)
                THEN turn ELSE ~turn
        cur == IF side THEN popleft(st.fq)[1] ELSE popleft(st.bq)[1]
    IN /\ visited' = st.fv
       /\ parent' = st.fp
       /\ backward_visited' = st.bv
       /\ backward_parent' = st.bp
       /\ meeting_point' = None
       /\ IF st.fq # <<>> \/ st.bq # <<>>
          THEN /\ is_forward_turn' = side
               /\ current' = cur
               /\ queue' = IF side THEN popleft(st.fq)[2] ELSE st.fq
               /\ backward_queue' = IF side THEN st.bq ELSE popleft(st.bq)[2]
               /\ explored_cells' = cells \cup {cur}
               /\ yield(cur, cells \cup {cur}, <<>>, FALSE, "yield_pop")
          ELSE \* meeting_point is None
               /\ yield(None, cells, <<>>, FALSE, "yield_none")
               /\ is_forward_turn' = turn
               /\ queue' = st.fq
               /\ backward_queue' = st.bq
               /\ explored_cells' = cells
               /\ UNCHANGED current

\* The loop was left by a break: the full path is yielded.  st is
\* [fq, fv, fp, bq, bv, bp], the two sides as the break leaves them.
bfs_bidirectional_animated_met(st, meeting) ==
    /\ meeting_point' = meeting
    /\ queue' = st.fq
    /\ visited' = st.fv
    /\ parent' = st.fp
    /\ backward_queue' = st.bq
    /\ backward_visited' = st.bv
    /\ backward_parent' = st.bp
    /\ yield(meeting, explored_cells, full_path(st.fp, st.bp, meeting), TRUE,
             "yield_goal")
    /\ UNCHANGED <<explored_cells, is_forward_turn, current>>

bfs_bidirectional_animated_next ==
    /\ algo = "bfs_bidirectional_animated"
    /\ pc \in {"created", "yield_pop", "yield_goal", "yield_none"}
    /\ IF pc = "created"
       THEN IF absent(start) \/ absent(goal)
            THEN stop_iteration
            ELSE /\ bfs_bidirectional_animated_top(
                      [fq |-> <<start>>, fv |-> {start},
                       fp |-> put(empty_dict, start, None),
                       bq |-> <<goal>>, bv |-> {goal},
                       bp |-> put(empty_dict, goal, None)], TRUE, {})
                 /\ UNCHANGED <<astar_vars, nodes_explored>>
       ELSE IF pc = "yield_pop" /\ is_forward_turn
       THEN LET st == push_until_met(
                        get_neighbors(current[1], current[2]), current,
                        backward_visited,
                        [queue |-> queue, visited |-> visited,
                         parent |-> parent, meeting_point |-> None])
            IN /\ IF current \in backward_visited
                  THEN bfs_bidirectional_animated_met(
                         [fq |-> queue, fv |-> visited, fp |-> parent,
                          bq |-> backward_queue, bv |-> backward_visited,
                          bp |-> backward_parent], current)
                  ELSE IF st.meeting_point # None
                  THEN bfs_bidirectional_animated_met(
                         [fq |-> st.queue, fv |-> st.visited,
                          fp |-> st.parent, bq |-> backward_queue,
                          bv |-> backward_visited, bp |-> backward_parent],
                         st.meeting_point)
                  ELSE bfs_bidirectional_animated_top(
                         [fq |-> st.queue, fv |-> st.visited,
                          fp |-> st.parent, bq |-> backward_queue,
                          bv |-> backward_visited, bp |-> backward_parent],
                         ~is_forward_turn, explored_cells)
               /\ UNCHANGED <<astar_vars, nodes_explored>>
       ELSE IF pc = "yield_pop"
       THEN LET st == push_until_met(
                        get_neighbors(current[1], current[2]), current,
                        visited,
                        [queue |-> backward_queue,
                         visited |-> backward_visited,
                         parent |-> backward_parent,
                         meeting_point |-> None])
            IN /\ IF current \in visited
                  THEN bfs_bidirectional_animated_met(
                         [fq |-> queue, fv |-> visited, fp |-> parent,
                          bq |-> backward_queue, bv |-> backward_visited,
                          bp |-> backward_parent], current)
                  ELSE IF st.meeting_point # None
                  THEN bfs_bidirectional_animated_met(
                         [fq |-> queue, fv |-> visited, fp |-> parent,
                          bq |-> st.queue, bv |-> st.visited,
                          bp |-> st.parent], st.meeting_point)
                  ELSE bfs_bidirectional_animated_top(
                         [fq |-> queue, fv |-> visited, fp |-> parent,
                          bq |-> st.queue, bv |-> st.visited,
                          bp |-> st.parent],
                         ~is_forward_turn, explored_cells)
               /\ UNCHANGED <<astar_vars, nodes_explored>>
       ELSE stop_iteration
    /\ UNCHANGED <<maze_vars, edit_vars, caller_vars, algo, ret, pops>>

----------------------------------------------------------------------------
(* Initial mazes: Maze() followed by load_from_string of a rectangular text *)
(* with at most one 'S' and at most one 'G'.                               *)

count(g, tag) == Cardinality({p \in DOMAIN g : g[p] = tag})

\* The ids root.after gives are 1, 2, ...; the animation_id that is None is
\* written 0.
no_id == 0

\* MazePathfinderAdvanced.__init__: no animation, no timer pending, status
\* 'Ready'.
no_animation ==
    /\ animation_running = FALSE /\ animation_generator = None
    /\ animation_id = no_id /\ timers = {}
    /\ status = "Ready" /\ handler = "mainloop" /\ shown = 0
    /\ other_maze = None

LoadedGrids ==
    {g \in [Cells(Rows, Cols) -> Tags] : count(g, "S") <= 1 /\ count(g, "G") <= 1}

Init ==
    /\ rows = Rows /\ cols = Cols
    /\ grid \in LoadedGrids
    /\ start = find_last(grid, scan_order(Rows, Cols, 0), "S", None)
    /\ goal = find_last(grid, scan_order(Rows, Cols, 0), "G", None)
    /\ edit_mode = FALSE
    /\ relocated = FALSE
    /\ algo = "" /\ pc = "idle"
    /\ queue = <<>> /\ visited = {} /\ parent = empty_dict
    /\ backward_queue = <<>> /\ backward_visited = {}
    /\ backward_parent = empty_dict
    /\ heap = {} /\ g_score = empty_dict /\ counter = 0
    /\ nodes_explored = 0 /\ explored_cells = {}
    /\ meeting_point = None /\ is_forward_turn = TRUE /\ current = None
    /\ ret = None /\ pops = 0 /\ yielded = <<>>
    /\ text = None /\ compare = None /\ suspended = None
    /\ no_animation

----------------------------------------------------------------------------
(* Text: load_from_string and to_string.  A string is the sequence of its  *)
(* characters.                                                             *)

\* The texts explored have at most TextRows lines of at most TextCols tags.
TextRows == 2
TextCols == 2

\* The characters str.strip() removes that a text over the tags and the
\* newline may hold.
Whitespace == {"\n", " ", "\t", "\r"}

RECURSIVE lstrip(_)
lstrip(t) ==
    IF t # <<>> /\ Head(t) \in Whitespace THEN lstrip(Tail(t)) ELSE t

RECURSIVE rstrip(_)
rstrip(t) ==
    IF t # <<>> /\ t[Len(t)] \in Whitespace
    THEN rstrip(SubSeq(t, 1, Len(t) - 1))
    ELSE t

strip(t) == rstrip(lstrip(t))

\* str.split(sep): line is the piece being read, the result has one piece
\* more than t has separators.
RECURSIVE split(_, _, _)
split(t, sep, line) ==
    IF t = <<>> THEN <<line>>
    ELSE IF Head(t) = sep THEN <<line>> \o split(Tail(t), sep, <<>>)
    ELSE split(Tail(t), sep, Append(line, Head(t)))

\* sep.join(pieces)
RECURSIVE join(_, _)
join(pieces, sep) ==
    IF pieces = <<>> THEN <<>>
    ELSE IF Len(pieces) = 1 THEN pieces[1]
    ELSE pieces[1] \o <<sep>> \o join(Tail(pieces), sep)

\* to_string with a newline after every row, the last one included.
to_string_newline_terminated ==
    LET row(r) == [c \in 1 .. cols |-> grid[<<r - 1, c - 1>>]] \o <<"\n">>
    IN join([r \in 1 .. rows |-> row(r)], <<>>)

\* Maze.to_string: the rows of the grid, each joined to a string, joined by
\* newlines.
to_string ==
    LET row(r) == [c \in 1 .. cols |-> grid[<<r - 1, c - 1>>]]
    IN join([r \in 1 .. rows |-> row(r)], "\n")

\* The well-formed texts: r lines of c tags each, joined by newlines.
Texts ==
    UNION {{join(lines, "\n") : lines \in [1 .. r -> [1 .. c -> Tags]]} :
             r \in 1 .. TextRows, c \in 1 .. TextCols}

\* Maze(): an empty grid, and a text the caller is about to load.
InitText ==
    /\ rows = 0 /\ cols = 0
    /\ grid = <<>>
    /\ start = None /\ goal = None
    /\ edit_mode = FALSE
    /\ relocated = FALSE
    /\ algo = "" /\ pc = "idle"
    /\ queue = <<>> /\ visited = {} /\ parent = empty_dict
    /\ backward_queue = <<>> /\ backward_visited = {}
    /\ backward_parent = empty_dict
    /\ heap = {} /\ g_score = empty_dict /\ counter = 0
    /\ nodes_explored = 0 /\ explored_cells = {}
    /\ meeting_point = None /\ is_forward_turn = TRUE /\ current = None
    /\ ret = None /\ pops = 0 /\ yielded = <<>>
    /\ text \in Texts /\ compare = None /\ suspended = None
    /\ no_animation

\* maze.load_from_string(text).  The grid of a rectangular text is the
\* function from its cells to their tags.
Maze_load_from_string ==
    /\ pc = "idle" /\ algo = ""
    /\ LET lines == split(strip(text), "\n", <<>>)
           r == Len(lines)
           c == IF r > 0 THEN Len(lines[1]) ELSE 0
           g == [p \in Cells(r, c) |-> lines[p[1] + 1][p[2] + 1]]
       IN /\ grid' = g
          /\ rows' = r
          /\ cols' = c
          /\ start' = find_last(g, scan_order(r, c, 0), "S", start)
          /\ goal' = find_last(g, scan_order(r, c, 0), "G", goal)
    /\ algo' = "load_from_string"
    /\ pc' = "returned"
    /\ UNCHANGED <<edit_vars, caller_vars, local_vars, ret, pops, yielded>>

\* maze.to_string(), on the Maze that has been loaded.
Maze_to_string ==
    /\ pc = "returned" /\ algo = "load_from_string"
    /\ algo' = "to_string"
    /\ ret' = to_string
    /\ UNCHANGED <<maze_vars, edit_vars, caller_vars, local_vars, pc, pops,
                   yielded>>

NextText == Maze_load_from_string \/ Maze_to_string

SpecText == InitText /\ [][NextText]_vars

----------------------------------------------------------------------------
(* Editing: set_cell called on the Maze, and the canvas handlers of the    *)
(* GUI, which receive the cell the pointer is on.                          *)

search_vars == <<algo, pc, queue, visited, parent, backward_queue,
                 backward_visited, backward_parent, heap, g_score, counter,
                 nodes_explored, explored_cells, meeting_point,
                 is_forward_turn, current, ret, pops, yielded>>

on_border(row, col) ==
    row = 0 \/ row = rows - 1 \/ col = 0 \/ col = cols - 1

\* The arguments tried: every cell, and one row and one column past the edge.
RowArgs == 0 .. Rows
ColArgs == 0 .. Cols

no_edit == UNCHANGED <<grid, start, goal, relocated>>

Maze_set_cell ==
    /\ \E row \in RowArgs, col \in ColArgs, value \in Tags :
          set_cell(row, col, value)
    /\ UNCHANGED <<rows, cols, edit_mode, search_vars, caller_vars>>

toggle_edit_mode ==
    /\ edit_mode' = ~edit_mode
    /\ UNCHANGED <<maze_vars, relocated, search_vars, caller_vars>>

\* The body of on_canvas_left_click, for the cell <<row, col>> the pointer
\* is on.
left_click(row, col) ==
    IF ~edit_mode THEN no_edit
    ELSE IF in_bounds(row, col)
    THEN LET cell == get_cell(row, col)
         IN IF cell \in {"S", "G"} \/ on_border(row, col)
            THEN no_edit
            ELSE set_cell(row, col, IF cell = "." THEN "#" ELSE ".")
    ELSE no_edit

on_canvas_left_click ==
    /\ \E row \in RowArgs, col \in ColArgs : left_click(row, col)
    /\ UNCHANGED <<rows, cols, edit_mode, search_vars, caller_vars>>

on_canvas_right_click ==
    /\ \E row \in RowArgs, col \in ColArgs :
          IF ~edit_mode THEN no_edit
          ELSE IF in_bounds(row, col)
          THEN LET cell == get_cell(row, col)
               IN IF cell = "#" \/ on_border(row, col)
                  THEN no_edit
                  ELSE IF cell = "." THEN set_cell(row, col, "S")
                  ELSE IF cell = "S" THEN set_cell(row, col, "G")
                  ELSE IF cell = "G" THEN set_cell(row, col, ".")
                  ELSE no_edit
          ELSE no_edit
    /\ UNCHANGED <<rows, cols, edit_mode, search_vars, caller_vars>>

on_canvas_drag ==
    /\ \E row \in RowArgs, col \in ColArgs :
          IF ~edit_mode THEN no_edit ELSE left_click(row, col)
    /\ UNCHANGED <<rows, cols, edit_mode, search_vars, caller_vars>>

NextEdit ==
    \/ Maze_set_cell
    \/ toggle_edit_mode
    \/ on_canvas_left_click
    \/ on_canvas_right_click
    \/ on_canvas_drag

SpecEdit == Init /\ [][NextEdit]_vars

----------------------------------------------------------------------------
Next ==
    \/ bfs_call
    \/ bfs_loop
    \/ bfs_exit
    \/ dfs_call
    \/ dfs_loop
    \/ dfs_exit
    \/ a_star_call
    \/ a_star_loop
    \/ a_star_exit
    \/ dfs_optimized_call
    \/ dfs_optimized_loop
    \/ dfs_optimized_exit
    \/ bfs_bidirectional_call
    \/ bfs_bidirectional_forward
    \/ bfs_bidirectional_backward
    \/ bfs_bidirectional_exit
    \/ bfs_animated_call
    \/ bfs_animated_next
    \/ dfs_animated_call
    \/ dfs_animated_next
    \/ dfs_optimized_animated_call
    \/ dfs_optimized_animated_next
    \/ a_star_animated_call
    \/ a_star_animated_next
    \/ bfs_bidirectional_animated_call
    \/ bfs_bidirectional_animated_next

Spec == Init /\ [][Next]_vars

\* The run-to-completion searches alone.  A call that has started goes on
\* executing: the interpreter takes the function's next step whenever it has
\* one.
NextRun ==
    \/ bfs_call
    \/ bfs_loop
    \/ bfs_exit
    \/ dfs_call
    \/ dfs_loop
    \/ dfs_exit
    \/ a_star_call
    \/ a_star_loop
    \/ a_star_exit
    \/ dfs_optimized_call
    \/ dfs_optimized_loop
    \/ dfs_optimized_exit
    \/ bfs_bidirectional_call
    \/ bfs_bidirectional_forward
    \/ bfs_bidirectional_backward
    \/ bfs_bidirectional_exit

SpecRun == Init /\ [][NextRun]_vars /\ WF_vars(NextRun)

Strategies == {"bfs", "dfs", "dfs_optimized", "a_star", "bfs_bidirectional"}

\* The caller calls the strategy it has just run once more, on the grid as it
\* is: the result of the first call is still in ret while the second runs.
call_again ==
    /\ pc = "returned" /\ algo \in Strategies
    /\ pc' = "idle"
    /\ UNCHANGED <<maze_vars, edit_vars, caller_vars, algo, local_vars, ret,
                   pops, yielded>>

SameAgain(a) == ret # None => algo = a

bfs_twice == SameAgain("bfs") /\ (bfs_call \/ bfs_loop \/ bfs_exit)

dfs_twice == SameAgain("dfs") /\ (dfs_call \/ dfs_loop \/ dfs_exit)

a_star_twice ==
    SameAgain("a_star") /\ (a_star_call \/ a_star_loop \/ a_star_exit)

dfs_optimized_twice ==
    /\ SameAgain("dfs_optimized")
    /\ (dfs_optimized_call \/ dfs_optimized_loop \/ dfs_optimized_exit)

bfs_bidirectional_twice ==
    /\ SameAgain("bfs_bidirectional")
    /\ \/ bfs_bidirectional_call
       \/ bfs_bidirectional_forward
       \/ bfs_bidirectional_backward
       \/ bfs_bidirectional_exit

NextTwice ==
    \/ call_again
    \/ bfs_twice
    \/ dfs_twice
    \/ a_star_twice
    \/ dfs_optimized_twice
    \/ bfs_bidirectional_twice

SpecTwice == Init /\ [][NextTwice]_vars

----------------------------------------------------------------------------
(* compare_all_algorithms(maze, runs).  compare is the frame of the harness: *)
(* its arguments, its position in the two for loops and its locals.  The     *)
(* runtimes are what the clock gives and are left out; an average is the     *)
(* pair <<sum, len>> of its division.                                        *)

\* The values of runs explored are 1 .. MaxRuns.
MaxRuns == 2

\* The list "algorithms" of the harness: the function and its label.
algorithms == <<<<"bfs", "BFS">>, <<"dfs", "DFS">>, <<"a_star", "A*">>>>

RECURSIVE sum(_)
sum(s) == IF s = <<>> THEN 0 ELSE Head(s) + sum(Tail(s))

compare_all_algorithms_call ==
    /\ pc = "idle" /\ compare = None
    /\ \E runs \in 1 .. MaxRuns :
         compare' = [pc |-> "loop", runs |-> runs, index |-> 1,
                     nodes_counts |-> <<>>, path_length |-> 0,
                     final_path |-> None, explored_cells |-> {},
                     results |-> <<>>]
    /\ UNCHANGED <<maze_vars, edit_vars, search_vars, text, suspended,
                   gui_vars>>

\* "path, nodes_explored, runtime, exp_cells = algo_func(maze)": the call.
compare_algo_func ==
    /\ compare # None /\ compare.pc = "loop"
    /\ compare.index <= Len(algorithms)
    /\ Len(compare.nodes_counts) < compare.runs
    /\ (bfs_call \/ dfs_call \/ a_star_call)
    /\ algo' = algorithms[compare.index][1]

\* The rest of the body of "for _ in range(runs)", once the call has
\* returned.
compare_trial ==
    /\ compare # None /\ compare.pc = "loop"
    /\ pc = "returned"
    /\ LET path == ret[1]
           first == path # None /\ path # <<>> /\ compare.final_path = None
       IN compare' =
            [compare EXCEPT
               !.nodes_counts = Append(@, ret[2]),
               !.path_length = IF first THEN Len(path) ELSE @,
               !.final_path = IF first THEN path ELSE @,
               !.explored_cells = IF first THEN ret[3] ELSE @]
    /\ pc' = "idle"
    /\ UNCHANGED <<maze_vars, edit_vars, text, suspended, gui_vars, algo,
                   local_vars,
                   ret, pops, yielded>>

\* "results.append({...})" after the runs of one algorithm, and the locals
\* of the next one.
compare_append ==
    /\ compare # None /\ compare.pc = "loop"
    /\ pc = "idle"
    /\ compare.index <= Len(algorithms)
    /\ Len(compare.nodes_counts) = compare.runs
    /\ compare' =
         [compare EXCEPT
            !.results = Append(@,
                [algorithm |-> algorithms[compare.index][2],
                 avg_nodes |-> <<sum(compare.nodes_counts),
                                 Len(compare.nodes_counts)>>,
                 path_length |-> compare.path_length,
                 path |-> compare.final_path,
                 explored_cells |-> compare.explored_cells]),
            !.index = @ + 1,
            !.nodes_counts = <<>>,
            !.path_length = 0,
            !.final_path = None,
            !.explored_cells = {}]
    /\ UNCHANGED <<maze_vars, edit_vars, search_vars, text, suspended,
                   gui_vars>>

\* "return results"
compare_return ==
    /\ compare # None /\ compare.pc = "loop"
    /\ pc = "idle"
    /\ compare.index > Len(algorithms)
    /\ compare' = [compare EXCEPT !.pc = "returned"]
    /\ UNCHANGED <<maze_vars, edit_vars, search_vars, text, suspended,
                   gui_vars>>

NextCompare ==
    \/ compare_all_algorithms_call
    \/ compare_algo_func
    \/ bfs_loop \/ bfs_exit
    \/ dfs_loop \/ dfs_exit
    \/ a_star_loop \/ a_star_exit
    \/ compare_trial
    \/ compare_append
    \/ compare_return

SpecCompare == Init /\ [][NextCompare]_vars

----------------------------------------------------------------------------
(* Two generators on one maze.  The caller holds two generator objects and *)
(* advances either; each has its own frame.  The variables of the search   *)
(* are the frame of the generator being advanced, suspended is the frame   *)
(* of the other one.                                                       *)

\* The mazes explored with two generators have at most PairWalls walls.
PairWalls == 1

\* The generators the caller creates.
PairStrategies ==
    {"bfs_animated", "dfs_animated", "dfs_optimized_animated",
     "a_star_animated", "bfs_bidirectional_animated"}

InitPair == Init /\ count(grid, "#") <= PairWalls

\* The frame of the generator being advanced.
frame ==
    [algo |-> algo, pc |-> pc, queue |-> queue, visited |-> visited,
     parent |-> parent, backward_queue |-> backward_queue,
     backward_visited |-> backward_visited,
     backward_parent |-> backward_parent, heap |-> heap,
     g_score |-> g_score, counter |-> counter,
     nodes_explored |-> nodes_explored, explored_cells |-> explored_cells,
     meeting_point |-> meeting_point, is_forward_turn |-> is_forward_turn,
     current |-> current, yielded |-> yielded]

\* The locals other than explored_cells are those of frame f.
resume_but_explored_cells(f) ==
    /\ algo' = f.algo /\ pc' = f.pc
    /\ queue' = f.queue /\ visited' = f.visited /\ parent' = f.parent
    /\ backward_queue' = f.backward_queue
    /\ backward_visited' = f.backward_visited
    /\ backward_parent' = f.backward_parent
    /\ heap' = f.heap /\ g_score' = f.g_score /\ counter' = f.counter
    /\ nodes_explored' = f.nodes_explored
    /\ meeting_point' = f.meeting_point
    /\ is_forward_turn' = f.is_forward_turn
    /\ current' = f.current
    /\ yielded' = f.yielded

\* Mutant: explored_cells is one set for both generators, as a module-level
\* set would be.
resume_shared_explored_cells(f) ==
    /\ resume_but_explored_cells(f)
    /\ UNCHANGED explored_cells

\* The generator with frame f is the one advanced next.
resume(f) ==
    /\ resume_but_explored_cells(f)
    /\ explored_cells' = f.explored_cells

\* generator = bfs_animated(maze), or another of the five: the first one.
pair_first ==
    /\ pc = "idle" /\ suspended = None
    /\ \E a \in PairStrategies : algo' = a
    /\ pc' = "created"
    /\ yielded' = <<>>
    /\ UNCHANGED <<maze_vars, edit_vars, caller_vars, local_vars, ret, pops>>

\* The second generator is created, wherever the first one is: not yet
\* started, midway or at its end.
pair_second ==
    /\ algo \in PairStrategies /\ suspended = None
    /\ suspended' = frame
    /\ \E a \in PairStrategies : algo' = a
    /\ pc' = "created"
    /\ yielded' = <<>>
    /\ no_locals
    /\ UNCHANGED <<maze_vars, edit_vars, text, compare, gui_vars, ret, pops>>

\* The caller turns to the other generator.
pair_switch ==
    /\ suspended # None
    /\ suspended' = frame
    /\ resume(suspended)
    /\ UNCHANGED <<maze_vars, edit_vars, text, compare, gui_vars, ret, pops>>

NextPair ==
    \/ pair_first
    \/ pair_second
    \/ pair_switch
    \/ bfs_animated_next
    \/ dfs_animated_next
    \/ dfs_optimized_animated_next
    \/ a_star_animated_next
    \/ bfs_bidirectional_animated_next

SpecPair == InitPair /\ [][NextPair]_vars

----------------------------------------------------------------------------
(* MazePathfinderAdvanced: the animation.  The handlers run one at a time  *)
(* on the interface thread; handler is "mainloop" between two of them.     *)
(* The maze variables are the Maze object the executing code reads:        *)
(* self.maze in every handler, and the generator's maze while animate_step *)
(* advances the generator.  other_maze is None while the two are one       *)
(* object; once self.maze is another object it holds the one of the two    *)
(* that the maze variables do not.                                         *)

\* The mazes the interface is given have Start in the first cell, Goal in
\* the last one and at most GuiWalls Wall cells.
GuiWalls == 2

other_callers == <<ret, pops, text, compare, suspended>>

self_maze ==
    [rows |-> rows, cols |-> cols, grid |-> grid, start |-> start,
     goal |-> goal]

use_maze(m) ==
    /\ rows' = m.rows /\ cols' = m.cols /\ grid' = m.grid
    /\ start' = m.start /\ goal' = m.goal

\* The Maze that load_from_string builds from a text of Rows lines of Cols
\* tags whose Wall cells are W.
maze_with_walls(W) ==
    [rows |-> Rows, cols |-> Cols,
     grid |-> [p \in Cells(Rows, Cols) |->
                  IF p = <<0, 0>> THEN "S"
                  ELSE IF p = <<Rows - 1, Cols - 1>> THEN "G"
                  ELSE IF p \in W THEN "#" ELSE "."],
     start |-> <<0, 0>>, goal |-> <<Rows - 1, Cols - 1>>]

GuiMazes ==
    {maze_with_walls(W) :
        W \in {V \in SUBSET (Cells(Rows, Cols)
                                \ {<<0, 0>>, <<Rows - 1, Cols - 1>>}) :
                  Cardinality(V) <= GuiWalls}}

\* The window once a maze of GuiMazes is loaded.
InitGui ==
    /\ \E m \in GuiMazes :
          /\ rows = m.rows /\ cols = m.cols /\ grid = m.grid
          /\ start = m.start /\ goal = m.goal
    /\ edit_mode = FALSE
    /\ relocated = FALSE
    /\ algo = "" /\ pc = "idle"
    /\ queue = <<>> /\ visited = {} /\ parent = empty_dict
    /\ backward_queue = <<>> /\ backward_visited = {}
    /\ backward_parent = empty_dict
    /\ heap = {} /\ g_score = empty_dict /\ counter = 0
    /\ nodes_explored = 0 /\ explored_cells = {}
    /\ meeting_point = None /\ is_forward_turn = TRUE /\ current = None
    /\ ret = None /\ pops = 0 /\ yielded = <<>>
    /\ text = None /\ compare = None /\ suspended = None
    /\ no_animation

\* The combobox values and the generator function of each.
algo_map ==
    [algo_name \in {"BFS", "DFS", "A*", "DFS_OPT", "BFS_BI"} |->
        IF algo_name = "BFS" THEN "bfs_animated"
        ELSE IF algo_name = "DFS" THEN "dfs_animated"
        ELSE IF algo_name = "A*" THEN "a_star_animated"
        ELSE IF algo_name = "DFS_OPT" THEN "dfs_optimized_animated"
        ELSE "bfs_bidirectional_animated"]

\* The generator object is no longer referenced: its frame is gone.  The
\* snapshots it yielded stay in yielded until the next generator is made.
drop_generator ==
    /\ pc' = "idle"
    /\ no_locals
    /\ UNCHANGED <<algo, yielded>>

keep_generator == UNCHANGED <<algo, pc, local_vars, yielded>>

\* run_animation, up to its call of animate_step.  The first call of
\* animate_step is made by run_animation itself: its steps follow.
run_animation ==
    /\ handler = "mainloop"
    /\ IF animation_running \/ absent(start) \/ absent(goal)
       THEN UNCHANGED vars
       ELSE /\ \E algo_name \in DOMAIN algo_map :
                 /\ animation_generator' = <<algo_map[algo_name]>>
                 /\ algo' = algo_map[algo_name]
            /\ animation_running' = TRUE
            /\ pc' = "created"
            /\ yielded' = <<>>
            /\ no_locals
            /\ shown' = 0
            /\ status' = "Running..."
            /\ handler' = "animate_step"
            /\ UNCHANGED <<maze_vars, edit_vars, other_callers, animation_id,
                           timers, other_maze>>

\* The code turns from self.maze to the generator's maze, or back.
switch_maze ==
    IF other_maze = None THEN UNCHANGED <<maze_vars, other_maze>>
    ELSE /\ use_maze(other_maze)
         /\ other_maze' = self_maze

\* A pending timer fires: animate_step is entered, up to next(generator).
animate_step ==
    /\ handler = "mainloop"
    /\ \E id \in timers : timers' = timers \ {id}
    /\ IF ~animation_running
       THEN UNCHANGED <<handler, maze_vars, other_maze>>
       ELSE /\ handler' = "animate_step"
            /\ switch_maze
    /\ UNCHANGED <<edit_vars, search_vars, text, compare, suspended,
                   animation_running, animation_generator, animation_id,
                   status, shown>>

\* next(generator) raises TypeError: a_star_animated and
\* dfs_optimized_animated subscript maze.goal for each neighbor they are
\* about to push, and maze.goal is None.
raises ==
    /\ pc = "yield_pop"
    /\ goal = None
    /\ \E i \in DOMAIN get_neighbors(current[1], current[2]) :
          LET neighbor == get_neighbors(current[1], current[2])[i]
          IN /\ neighbor \notin visited
             /\ IF algo = "a_star_animated"
                THEN IF neighbor \in DOMAIN g_score
                     THEN g_score[current] + 1 < g_score[neighbor]
                     ELSE TRUE
                ELSE algo = "dfs_optimized_animated"

\* "current, explored, path, is_goal = next(self.animation_generator)"
animate_step_next ==
    /\ handler = "animate_step"
    /\ Len(yielded) = shown /\ pc # "exhausted"
    /\ ~raises
    /\ \/ bfs_animated_next
       \/ dfs_animated_next
       \/ dfs_optimized_animated_next
       \/ a_star_animated_next
       \/ bfs_bidirectional_animated_next

\* The TypeError leaves animate_step, which catches StopIteration only, and
\* Tk reports it: the generator is finished, nothing else is changed and no
\* timer is scheduled.
animate_step_raise ==
    /\ handler = "animate_step"
    /\ Len(yielded) = shown /\ pc # "exhausted"
    /\ raises
    /\ pc' = "exhausted"
    /\ no_locals
    /\ handler' = "mainloop"
    /\ switch_maze
    /\ UNCHANGED <<edit_vars, algo, yielded, other_callers,
                   animation_running, animation_generator, animation_id,
                   timers, status, shown>>

\* animation_complete, called by animate_step: the maze the code reads
\* afterwards is self.maze.
animation_complete(success) ==
    /\ animation_running' = FALSE
    /\ animation_generator' = None
    /\ status' = IF success THEN "Success!" ELSE "No Path"
    /\ drop_generator
    /\ IF other_maze = None THEN UNCHANGED maze_vars ELSE use_maze(other_maze)
    /\ other_maze' = None

\* The id root.after returns: one that no pending timer has.
after_id ==
    CHOOSE id \in 1 .. Cardinality(timers) + 1 : id \notin timers

\* The rest of animate_step, once next has returned or raised
\* StopIteration.
animate_step_draw ==
    /\ handler = "animate_step"
    /\ Len(yielded) > shown \/ pc = "exhausted"
    /\ handler' = "mainloop"
    /\ IF pc = "exhausted"
       THEN /\ animation_complete(FALSE)
            /\ UNCHANGED <<animation_id, timers, shown>>
       ELSE /\ shown' = Len(yielded)
            /\ IF yielded[Len(yielded)][4]
               THEN /\ animation_complete(TRUE)
                    /\ UNCHANGED <<animation_id, timers>>
               ELSE /\ animation_id' = after_id
                    /\ timers' = timers \cup {after_id}
                    /\ switch_maze
                    /\ keep_generator
                    /\ UNCHANGED <<animation_running, animation_generator,
                                   status>>
    /\ UNCHANGED <<edit_vars, other_callers>>

\* stop_animation but for stats['status'], as the handlers that call it
\* leave it.
stop_animation_fields ==
    /\ timers' = IF animation_id # no_id THEN timers \ {animation_id}
                 ELSE timers
    /\ animation_id' = no_id
    /\ animation_running' = FALSE
    /\ animation_generator' = None
    /\ drop_generator
    /\ other_maze' = None
    /\ UNCHANGED <<edit_mode, other_callers, handler, shown>>

\* Mutant: stop_animation that only writes the status.
stop_animation_status_only ==
    /\ handler = "mainloop"
    /\ status' = "Stopped"
    /\ UNCHANGED <<maze_vars, edit_vars, search_vars, text, compare,
                   suspended, animation_running, animation_generator,
                   animation_id, timers, handler, shown, other_maze>>

stop_animation ==
    /\ handler = "mainloop"
    /\ stop_animation_fields
    /\ status' = "Stopped"
    /\ UNCHANGED <<maze_vars, relocated>>

reset_maze ==
    /\ handler = "mainloop"
    /\ stop_animation_fields
    /\ status' = "Ready"
    /\ UNCHANGED <<maze_vars, relocated>>

\* self.maze = Maze(); self.maze.load_from_string(maze_string);
\* self.reset_stats(), for the Maze m the text gives.
load_maze_from_string(m) ==
    /\ use_maze(m)
    /\ relocated' = FALSE
    /\ status' = "Ready"

\* The generated grids are abstracted to the mazes of GuiMazes.
generate_random ==
    /\ handler = "mainloop"
    /\ stop_animation_fields
    /\ \E m \in GuiMazes : load_maze_from_string(m)

generate_recursive ==
    /\ handler = "mainloop"
    /\ stop_animation_fields
    /\ \E m \in GuiMazes : load_maze_from_string(m)

generate_empty ==
    /\ handler = "mainloop"
    /\ stop_animation_fields
    /\ load_maze_from_string(maze_with_walls({}))

\* load_from_file with a file chosen and read.  The generator, if there is
\* one, keeps the Maze object it was given.
load_from_file ==
    /\ handler = "mainloop"
    /\ \E m \in GuiMazes : load_maze_from_string(m)
    /\ other_maze' = IF animation_generator = None THEN None
                     ELSE IF other_maze = None THEN self_maze
                     ELSE other_maze
    /\ UNCHANGED <<edit_mode, search_vars, text, compare, suspended,
                   animation_running, animation_generator, animation_id,
                   timers, handler, shown>>

\* The Edit Mode checkbox, which run_animation disables and
\* animation_complete and stop_animation enable.
edit_check ==
    /\ handler = "mainloop"
    /\ ~animation_running
    /\ toggle_edit_mode

\* The animation and the editing of the maze.
NextGui ==
    \/ run_animation
    \/ animate_step
    \/ animate_step_next
    \/ animate_step_raise
    \/ animate_step_draw
    \/ stop_animation
    \/ edit_check
    \/ handler = "mainloop" /\ on_canvas_left_click
    \/ handler = "mainloop" /\ on_canvas_right_click
    \/ handler = "mainloop" /\ on_canvas_drag

SpecGui == InitGui /\ [][NextGui]_vars

\* The mazes shown at first have at most FairWalls Wall cells.
FairWalls == 1

InitFair == InitGui /\ count(grid, "#") <= FairWalls

\* Tk's mainloop runs a timer callback once its delay has passed, and a
\* handler that is entered runs to its end.
SpecGuiFair ==
    /\ InitFair /\ [][NextGui]_vars
    /\ WF_vars(animate_step)
    /\ WF_vars(animate_step_next)
    /\ WF_vars(animate_step_raise)
    /\ WF_vars(animate_step_draw)

\* The animation and the operations that replace the maze.
NextReplace ==
    \/ run_animation
    \/ animate_step
    \/ animate_step_next
    \/ animate_step_draw
    \/ stop_animation
    \/ reset_maze
    \/ generate_random
    \/ generate_recursive
    \/ generate_empty
    \/ load_from_file

SpecReplace == InitGui /\ [][NextReplace]_vars

----------------------------------------------------------------------------
(* What the properties are stated with: the maze as a graph, independently *)
(* of the searches.                                                        *)

OpenCells == {p \in DOMAIN grid : grid[p] # "#"}

Adjacent(p, q) ==
    \/ p[1] = q[1] /\ (p[2] - q[2] = 1 \/ q[2] - p[2] = 1)
    \/ p[2] = q[2] /\ (p[1] - q[1] = 1 \/ q[1] - p[1] = 1)

RECURSIVE Closure(_)
Closure(S) ==
    LET more == {q \in OpenCells \ S : \E p \in S : Adjacent(p, q)}
    IN IF more = {} THEN S ELSE Closure(S \cup more)

\* The cells reachable from p, p included.
ReachableFrom(p) == Closure({p})

\* The number of steps of a shortest walk from the cells of S to q, counted
\* from d; -1 when there is none.
RECURSIVE Steps(_, _, _)
Steps(S, q, d) ==
    LET more == {r \in OpenCells \ S : \E p \in S : Adjacent(p, r)}
    IN IF q \in S THEN d
       ELSE IF more = {} THEN -1
       ELSE Steps(S \cup more, q, d + 1)

Distance == Steps({start}, goal, 0)

HasEndpoints == start # None /\ goal # None

Returned(a) == pc = "returned" /\ algo = a

Min(a, b) == IF a < b THEN a ELSE b


----------------------------------------------------------------------------
(* Properties of the run-to-completion searches, under Spec.  ret is       *)
(* <<path, nodes_explored, explored_cells>>.                               *)

ValidPath(path) ==
    /\ path # <<>>
    /\ path[1] = start
    /\ path[Len(path)] = goal
    /\ \A i \in 1 .. Len(path) :
          /\ in_bounds(path[i][1], path[i][2])
          /\ grid[path[i]] # "#"
    /\ \A i \in 1 .. Len(path) - 1 : Adjacent(path[i], path[i + 1])

\* C1: whenever one of the five strategies returns a path on a grid with
\* Start and Goal, the path begins at Start, ends at Goal, stays in bounds
\* and off the walls, and moves one cardinal step at a time.
C1_PathIsValid ==
    (pc = "returned" /\ algo \in Strategies /\ HasEndpoints /\ ret[1] # None)
        => ValidPath(ret[1])

\* The bidirectional search returns a path of five positions: both parent
\* chains contribute to it.
C1_Witness ==
    /\ Returned("bfs_bidirectional")
    /\ HasEndpoints
    /\ Len(ret[1]) = 5

\* C2: when Goal is reachable from Start, bfs returns a path with as many
\* positions as a shortest walk has: the distance plus one.
C2_BfsShortest ==
    (Returned("bfs") /\ HasEndpoints /\ goal \in ReachableFrom(start))
        => /\ ret[1] # None
           /\ Len(ret[1]) = Distance + 1

\* The 3x3 scenario "S.#", "..#", "#.G": bfs returns the path of length 5.
C2_Witness ==
    /\ Returned("bfs")
    /\ [i \in 1 .. 9 |-> grid[<<(i - 1) \div 3, (i - 1) % 3>>]]
          = <<"S", ".", "#", ".", ".", "#", "#", ".", "G">>
    /\ ret[1] = << <<0, 0>>, <<1, 0>>, <<1, 1>>, <<2, 1>>, <<2, 2>> >>

\* C3: when Goal is reachable from Start, a_star returns a path with as many
\* positions as a shortest walk has, which is the length of the path of bfs.
C3_AStarShortest ==
    (Returned("a_star") /\ HasEndpoints /\ goal \in ReachableFrom(start))
        => /\ ret[1] # None
           /\ Len(ret[1]) = Distance + 1

\* a_star returns a shortest path without having explored every reachable
\* cell: the heuristic has steered it.
C3_Witness ==
    /\ Returned("a_star")
    /\ HasEndpoints
    /\ Len(ret[1]) = 5
    /\ ret[2] < Cardinality(ReachableFrom(start))

Unreachable == HasEndpoints /\ goal \notin ReachableFrom(start)

C5_MissingEndpoint ==
    (pc = "returned" /\ algo \in Strategies /\ ~HasEndpoints)
        => /\ ret = <<None, 0, {}>>
           /\ pops = 0

\* bfs has returned on a grid that has a Start and no Goal.
C5_Witness ==
    /\ Returned("bfs")
    /\ start # None
    /\ goal = None
    /\ ret = <<None, 0, {}>>

----------------------------------------------------------------------------
(* Properties of the generators, under Spec.  A snapshot of yielded is     *)
(* <<current, explored_cells, path, is_goal>>; pops is the number of       *)
(* frontier pops the run-to-completion search made on the same grid.       *)

Animated == {"bfs_animated", "dfs_animated", "dfs_optimized_animated",
             "a_star_animated", "bfs_bidirectional_animated"}

Exhausted == pc = "exhausted" /\ algo \in Animated

\* A snapshot that ends the sequence: the goal is reached, or there is no
\* current node and the goal is not reached.
Terminal(snapshot) ==
    snapshot[4] = TRUE \/ (snapshot[1] = None /\ snapshot[4] = FALSE)

\* C9: on a grid with Start and Goal, a generator that has run to its end has
\* yielded one snapshot for each frontier pop the run-to-completion search of
\* the same strategy made, and one terminal snapshot more.
C9_SnapshotPerPop ==
    (Exhausted /\ HasEndpoints) => Len(yielded) = pops + 1

\* C10: on a grid with Start and Goal, the snapshots yielded are boundedly
\* many; no snapshot but the last is terminal (none before it has is_goal
\* TRUE, and nothing follows a terminal snapshot); and a generator that has
\* run to its end has yielded a last snapshot that is terminal.
C10_OneTerminalSnapshot ==
    (algo \in Animated /\ HasEndpoints)
        => /\ Len(yielded) <= 2 * Rows * Cols + 1
           /\ \A i \in 1 .. Len(yielded) - 1 : ~Terminal(yielded[i])
           /\ pc = "exhausted"
                 => /\ yielded # <<>>
                    /\ Terminal(yielded[Len(yielded)])

\* bfs_animated has run to its end on a grid whose Goal it cannot reach,
\* after snapshots of several pops: the last one has no current node.
C10_Witness ==
    /\ pc = "exhausted" /\ algo = "bfs_animated"
    /\ HasEndpoints
    /\ Len(yielded) >= 3
    /\ yielded[Len(yielded)][1] = None
    /\ yielded[Len(yielded)][4] = FALSE

----------------------------------------------------------------------------
(* Properties of editing, under SpecEdit. *)

\* C6: after any sequence of set_cell calls, the recorded Start and Goal,
\* when both are present, are each on a cell that is not a Wall.
C6_EndpointsNotWall ==
    HasEndpoints => grid[start] # "#" /\ grid[goal] # "#"

\* C7: after any sequence of edits the recorded Start and the recorded Goal
\* are never the same cell.
C7_StartGoalDistinct ==
    HasEndpoints => start # goal

\* C8: starting from a grid with at most one 'S' and at most one 'G' (Init
\* has no other), every edit leaves at most one 'S' and at most one 'G'; and
\* an edit that moves the Start off a cell tagged 'S' leaves that cell '.',
\* and likewise for the Goal and 'G'.
C8_SingleStartGoal ==
    [][/\ count(grid', "S") <= 1
       /\ count(grid', "G") <= 1
       /\ (start # None /\ grid[start] = "S" /\ start' # None
              /\ start' # start) => grid'[start] = "."
       /\ (goal # None /\ grid[goal] = "G" /\ goal' # None
              /\ goal' # goal) => grid'[goal] = "."]_vars

\* The last set_cell moved the Start: the cell that was 'S' has been reset,
\* and the grid has its one 'S' where Start is recorded.
C8_Witness ==
    /\ relocated
    /\ start # None
    /\ grid[start] = "S"
    /\ count(grid, "S") = 1
    /\ count(grid, "G") = 1

----------------------------------------------------------------------------
(* Termination of the run-to-completion searches, under SpecRun. *)

Running == pc \in {"loop", "backward"}

\* C11: every call of bfs, dfs, dfs_optimized, a_star or bfs_bidirectional
\* that has entered its loop eventually returns.
C11_Terminates == Running ~> (pc = "returned")

\* a_star has returned after at least four pops.
C11_Witness ==
    /\ Returned("a_star")
    /\ pops >= 4

----------------------------------------------------------------------------
(* Repeated calls, under SpecTwice: ret holds the result of the previous   *)
(* call of the same strategy while a call runs.                            *)

\* C12: a strategy called again on the unmodified grid returns what it
\* returned before: the same path, the same explored count and the same
\* explored set.
C12_SameResultAgain ==
    [][(ret # None /\ pc \in {"idle", "loop", "backward"}
           /\ pc' = "returned")
          => ret' = ret]_vars

\* dfs_optimized is in its second call, two pops in, and its first call
\* found a path.
C12_Witness ==
    /\ algo = "dfs_optimized" /\ pc = "loop"
    /\ pops >= 2
    /\ ret # None
    /\ ret[1] # None

----------------------------------------------------------------------------
(* The Maze as the searches use it, under Spec. *)

\* C13: no step of a search, run to completion or as a generator, changes
\* the Maze: rows, cols, the tags of the grid and the recorded Start and Goal
\* are after the step what they were before it.
C13_MazeReadOnly ==
    [][/\ rows' = rows
       /\ cols' = cols
       /\ grid' = grid
       /\ start' = start
       /\ goal' = goal]_vars

\* bfs has run to its return and bfs_animated has then yielded four
\* snapshots, on a grid with Start and Goal.
C13_Witness ==
    /\ algo = "bfs_animated"
    /\ HasEndpoints
    /\ ret # None
    /\ Len(yielded) = 4

Open(q) == q \in DOMAIN grid /\ grid[q] # "#"

\* C15: for every position p, on the grid or one step off it, get_neighbors
\* returns the positions North, South, West and East of p, in this order,
\* less those that are out of bounds or Wall.
C15_NeighborsInOrder ==
    \A p \in (-1 .. rows) \X (-1 .. cols) :
        get_neighbors(p[1], p[2])
            = SelectSeq(<< <<p[1] - 1, p[2]>>, <<p[1] + 1, p[2]>>,
                           <<p[1], p[2] - 1>>, <<p[1], p[2] + 1>> >>, Open)

\* A search has popped the middle cell of a grid on which its four neighbors
\* are open.
C15_Witness ==
    /\ pc = "loop"
    /\ current = <<1, 1>>
    /\ Len(get_neighbors(1, 1)) = 4

----------------------------------------------------------------------------
(* The text round trip, under SpecText. *)

\* C16: to_string of the Maze loaded from a well-formed rectangular text of
\* tags is that text.
C16_TextRoundTrip ==
    (algo = "to_string" /\ pc = "returned") => ret = text

\* The text "S#", newline, ".G" has been loaded as a grid of two rows and
\* two columns and written back.
C16_Witness ==
    /\ algo = "to_string" /\ pc = "returned"
    /\ text = <<"S", "#", "\n", ".", "G">>
    /\ rows = 2 /\ cols = 2
    /\ start = <<0, 0>> /\ goal = <<1, 1>>
    /\ ret = text

----------------------------------------------------------------------------
(* The two frontiers of the bidirectional search, under Spec.  In          *)
(* bfs_bidirectional pc = "loop" is the point before the forward step and  *)
(* pc = "backward" the point before the backward step; in the generator    *)
(* is_forward_turn at a "yield_pop" tells which side made the pop.         *)

Bidir == algo = "bfs_bidirectional"

BidirAnimated == algo = "bfs_bidirectional_animated"

\* C18: the pops alternate between the two sides, forward first.  In the
\* function every forward step and every backward step that goes on pops
\* its own queue; in the generator the first pop is the forward side's and
\* two pops in a row are of different sides.
C18_StrictAlternation ==
    [][/\ (Bidir /\ pc = "loop" /\ pc' = "backward")
            => (pops' = pops + 1 /\ current' = Head(queue))
       /\ (Bidir /\ pc = "backward" /\ pc' = "loop")
            => (pops' = pops + 1 /\ current' = Head(backward_queue))
       /\ (BidirAnimated /\ pc = "created" /\ pc' = "yield_pop")
            => is_forward_turn'
       /\ (BidirAnimated /\ pc = "yield_pop" /\ pc' = "yield_pop")
            => is_forward_turn' # is_forward_turn]_vars

\* C19: the search reports that there is no path only when both queues are
\* empty.  The function reports it by returning an absent path from the
\* loop, the generator by the snapshot without a current node.
C19_NoPathAfterBothExhausted ==
    [][/\ (Bidir /\ pc = "loop" /\ pc' = "returned" /\ ret'[1] = None)
            => (queue = <<>> /\ backward_queue = <<>>)
       /\ (BidirAnimated /\ pc' = "yield_none")
            => (queue' = <<>> /\ backward_queue' = <<>>)]_vars

\* The first node that both sides have visited when cur is expanded by the
\* side that has visited own: cur itself, or else the first neighbor in
\* neighbor order that is new to this side and known to the other.
FirstCollision(cur, own, other) ==
    LET hits == SelectSeq(get_neighbors(cur[1], cur[2]),
                          LAMBDA n : n \notin own /\ n \in other)
    IN IF cur \in other THEN cur
       ELSE IF hits = <<>> THEN None
       ELSE hits[1]

\* The neighbors of cur that are new to the side, up to and including m.
FreshUpTo(cur, own, m) ==
    LET fresh == SelectSeq(get_neighbors(cur[1], cur[2]),
                           LAMBDA n : n \notin own)
    IN IF m = cur THEN <<>>
       ELSE SubSeq(fresh, 1, CHOOSE i \in 1 .. Len(fresh) : fresh[i] = m)

OnPath(p, path) == \E i \in 1 .. Len(path) : path[i] = p

\* C20: the first collision is the meeting point and ends the search.  The
\* function returns from the step that finds it, with that pop as its last
\* one and a path through that node; the generator has enqueued the
\* neighbors up to the meeting point and no other, so that the meeting point
\* is the only node both sides have visited, and its next step ends it.
C20_HaltsAtFirstCollision ==
    [][/\ (Bidir /\ pc = "loop" /\ pc' = "returned" /\ ret'[1] # None)
            => /\ ret'[2] = nodes_explored + 1
               /\ pops' = pops + 1
               /\ OnPath(FirstCollision(Head(queue), visited,
                                        backward_visited), ret'[1])
       /\ (Bidir /\ pc = "backward" /\ pc' = "returned" /\ ret'[1] # None)
            => /\ ret'[2] = nodes_explored + 1
               /\ pops' = pops + 1
               /\ OnPath(FirstCollision(Head(backward_queue),
                                        backward_visited, visited), ret'[1])
       /\ (BidirAnimated /\ pc = "yield_pop" /\ pc' = "yield_goal"
             /\ is_forward_turn)
            => /\ meeting_point' =
                    FirstCollision(current, visited, backward_visited)
               /\ queue' = queue \o FreshUpTo(current, visited, meeting_point')
               /\ backward_queue' = backward_queue
               /\ visited' \cap backward_visited' = {meeting_point'}
       /\ (BidirAnimated /\ pc = "yield_pop" /\ pc' = "yield_goal"
             /\ ~is_forward_turn)
            => /\ meeting_point' =
                    FirstCollision(current, backward_visited, visited)
               /\ backward_queue' = backward_queue
                    \o FreshUpTo(current, backward_visited, meeting_point')
               /\ queue' = queue
               /\ visited' \cap backward_visited' = {meeting_point'}
       /\ (BidirAnimated /\ pc = "yield_goal")
            => (pc' = "exhausted" /\ yielded' = yielded)]_vars

\* The forward side has expanded (1, 0) next to two nodes the backward side
\* has visited, (2, 0) and (1, 1); (2, 0), the first in neighbor order, is
\* the meeting point and (1, 1) has not been enqueued.
C20_Witness ==
    /\ BidirAnimated /\ pc = "yield_goal"
    /\ is_forward_turn
    /\ current = <<1, 0>>
    /\ meeting_point = <<2, 0>>
    /\ <<1, 1>> \in backward_visited \ visited
    /\ yielded[Len(yielded)][3] = <<<<0, 0>>, <<1, 0>>, <<2, 0>>, <<2, 1>>>>

----------------------------------------------------------------------------
(* The comparison harness, under SpecCompare. *)

\* C17: compare_all_algorithms returns one record for each of the five
\* strategies, each of them run N times.
C17_FiveRecords ==
    (compare # None /\ compare.pc = "returned") =>
        /\ Len(compare.results) = 5
        /\ Cardinality({compare.results[i].algorithm :
                          i \in 1 .. Len(compare.results)}) = 5
        /\ \A i \in 1 .. Len(compare.results) :
             compare.results[i].avg_nodes[2] = compare.runs

----------------------------------------------------------------------------
(* Two generators advanced in any interleaving, under SpecPair. *)

\* The snapshots that both sequences have.
Both(y, z) == 1 .. Min(Len(y), Len(z))

\* C14: two generators on one maze do not affect each other.  Two of the
\* same strategy yield the same snapshots one by one, however far each has
\* been advanced and whichever was created first, and at the same position
\* their frames are equal; a step of one generator leaves the frame of the
\* other as it is.
C14_Interleaved ==
    /\ [](suspended # None /\ suspended.algo = algo =>
            /\ \A i \in Both(yielded, suspended.yielded) :
                 yielded[i] = suspended.yielded[i]
            /\ (Len(yielded) = Len(suspended.yielded) /\ pc = suspended.pc)
                  => suspended = frame)
    /\ [][suspended # None =>
            \/ suspended' = suspended
            \/ suspended' = frame /\ frame' = suspended]_vars

\* One bfs_animated generator is suspended after three snapshots; the other
\* one has been advanced to its end and has yielded five, the last with
\* the path.
C14_Witness ==
    /\ suspended # None
    /\ algo = "bfs_animated" /\ suspended.algo = "bfs_animated"
    /\ pc = "exhausted" /\ Len(yielded) = 5
    /\ suspended.pc = "yield_pop" /\ Len(suspended.yielded) = 3
    /\ yielded[5][4] = TRUE

----------------------------------------------------------------------------
(* The frontier of a_star, under Spec.  An entry is <<f, counter, position>>. *)

AStar == algo = "a_star" /\ pc = "loop"

\* e comes before every other entry of h: smaller f, or the same f and
\* pushed earlier.
First(e, h) ==
    \A x \in h \ {e} : e[1] < x[1] \/ (e[1] = x[1] /\ e[2] < x[2])

\* C21: the entries of the heap have different counters, none above the
\* counter of the last push; every pop takes the entry of the smallest f
\* and, among those, the one pushed first, and the entries a step pushes
\* are numbered one by one from the counter on.
C21_PopOrder ==
    /\ [](AStar => /\ \A x, y \in heap : x # y => x[2] # y[2]
                   /\ \A x \in heap : x[2] <= counter)
    /\ [][(AStar /\ pops' = pops + 1) =>
            /\ pc' = "loop" =>
                 /\ \E e \in heap : /\ First(e, heap)
                                    /\ e[3] = current'
                                    /\ e \notin heap'
                                    /\ heap \ {e} \subseteq heap'
                 /\ counter' = counter + Cardinality(heap' \ heap)
                 /\ \A x \in heap' \ heap : counter < x[2] /\ x[2] <= counter'
            /\ pc' = "returned" =>
                 \E e \in heap : First(e, heap) /\ e[3] = goal]_vars

\* The entry just popped had the same f as an entry that is still in the
\* heap and that this expansion did not push: the two were tied.
C21_Witness ==
    /\ AStar /\ pops >= 2
    /\ current \in visited
    /\ \E x \in heap :
         /\ x[1] = g_score[current] + manhattan_distance(current, goal)
         /\ x[3] # current
         /\ ~Adjacent(x[3], current)

----------------------------------------------------------------------------
(* The stack of dfs_optimized, under Spec. *)

DfsOptimized == algo = "dfs_optimized" /\ pc = "loop"

\* The entries of stack q above the first n.
Above(q, n) == {q[i] : i \in n + 1 .. Len(q)}

\* C22: an expansion that pushes a neighbor leaves on top of the stack a
\* neighbor it pushed that is as near to the goal, in Manhattan distance, as
\* any it pushed; the pop of the next step takes the top of the stack.
C22_NearestOnTop ==
    [][(DfsOptimized /\ pc' = "loop") =>
         /\ current' = queue[Len(queue)]
         /\ Len(queue') >= Len(queue) =>
              LET pushed == Above(queue', Len(queue) - 1)
                  top == queue'[Len(queue')]
              IN /\ pushed = {n \in OpenCells \ visited :
                                Adjacent(n, current')}
                 /\ top \in pushed
                 /\ \A n \in pushed : manhattan_distance(top, goal)
                                        <= manhattan_distance(n, goal)]_vars

\* The last expansion pushed two neighbors at different distances from the
\* goal, and the nearer one is on top.
C22_Witness ==
    /\ DfsOptimized /\ pops >= 1 /\ Len(queue) >= 2
    /\ LET top == queue[Len(queue)]
           below == queue[Len(queue) - 1]
       IN /\ parent[top] = current /\ parent[below] = current
          /\ manhattan_distance(top, goal) < manhattan_distance(below, goal)

----------------------------------------------------------------------------
(* The outcome of the bidirectional search against the maze as a graph,    *)
(* under Spec.                                                             *)

\* C23: when Goal is reachable from Start, bfs_bidirectional returns a path
\* with as many positions as the path of bfs has, which by C2 is the
\* distance plus one.
C23_BidirectionalShortest ==
    (Returned("bfs_bidirectional") /\ HasEndpoints
       /\ goal \in ReachableFrom(start))
        => /\ ret[1] # None
           /\ Len(ret[1]) = Distance + 1

\* On the open grid with Start and Goal in opposite corners the two sides
\* meet in the middle of a path of five positions, after six pops.
C23_Witness ==
    /\ Returned("bfs_bidirectional")
    /\ start = <<0, 0>> /\ goal = <<2, 2>>
    /\ count(grid, "#") = 0
    /\ Len(ret[1]) = 5
    /\ Distance = 4
    /\ ret[2] < Cardinality(ReachableFrom(start))

\* C24: on a grid with Start and Goal, dfs, dfs_optimized and
\* bfs_bidirectional return a path exactly when Goal is reachable from Start
\* through cells that are not walls.
C24_PathIffReachable ==
    (pc = "returned" /\ HasEndpoints
       /\ algo \in {"dfs", "dfs_optimized", "bfs_bidirectional"})
        => (ret[1] # None <=> goal \in ReachableFrom(start))

\* dfs has found the goal although its first descent ran into a dead end:
\* it has explored more cells than its path has.
C24_Witness ==
    /\ Returned("dfs") /\ HasEndpoints
    /\ goal \in ReachableFrom(start)
    /\ ret[1] # None
    /\ ret[2] > Len(ret[1])

\* C25: in every run-to-completion search, at every point of the loop and at
\* the return, the count of explored nodes is the size of the explored set,
\* and is at most the number of cells that are not walls.
C25_CountedOnce ==
    /\ (algo \in Strategies /\ pc \in {"loop", "backward"})
         => /\ nodes_explored = Cardinality(explored_cells)
            /\ nodes_explored <= Cardinality(OpenCells)
    /\ (algo \in Strategies /\ pc = "returned")
         => /\ ret[2] = Cardinality(ret[3])
            /\ ret[2] <= Cardinality(OpenCells)

\* The two sides of the bidirectional search have explored six cells
\* between them, each counted once, before they met.
C25_Witness ==
    /\ Returned("bfs_bidirectional") /\ HasEndpoints
    /\ ret[1] # None
    /\ ret[2] = 6
    /\ Cardinality(ret[3]) = 6

----------------------------------------------------------------------------
(* The end of a generator against the return of its function, under Spec:  *)
(* ret is what the function returned before the generator was created.     *)

\* The generator of algo has ended as the function did: its last snapshot
\* has the explored set returned, and has the goal reached and the path
\* returned, or the goal not reached when no path was returned.
SameOutcome ==
    /\ yielded # <<>>
    /\ LET last == yielded[Len(yielded)]
       IN /\ last[2] = ret[3]
          /\ IF ret[1] # None
             THEN last[4] = TRUE /\ last[3] = ret[1]
             ELSE last[4] = FALSE

\* C26: on a grid with Start and Goal, the generator of every strategy ends
\* with the outcome of the run-to-completion function.
C26_SameOutcome ==
    (Exhausted /\ HasEndpoints) => SameOutcome

----------------------------------------------------------------------------
(* The animation of the GUI *)

\* C27: while animation_running holds, a click or a drag on the canvas
\* changes neither the grid nor Start nor Goal, whatever edit_mode was when
\* the run started.
C27_NoEditWhileRunning ==
    [][(/\ animation_running
        /\ \/ on_canvas_left_click
           \/ on_canvas_right_click
           \/ on_canvas_drag)
       => UNCHANGED <<grid, start, goal>>]_vars

\* C28: whenever animation_running holds, the Maze object the generator
\* searches is self.maze: every operation that replaces self.maze has
\* stopped the animation first.
C28_GeneratorMazeIsCurrent == animation_running => other_maze = None

\* C29: at most one animation is in progress.  While animation_running
\* holds no step starts another search: the generator stays the same one
\* or is dropped, and the snapshots yielded are only added to.  Once
\* stop_animation has run (status 'Stopped') the animation is not running
\* and there is no generator, and as long as there is no generator no step
\* advances a search.
C29_OneAnimation ==
    /\ [](status = "Stopped" =>
             ~animation_running /\ animation_generator = None)
    /\ [][/\ animation_running =>
              \/ animation_generator' = None
              \/ /\ animation_generator' = animation_generator
                 /\ algo' = algo
                 /\ Len(yielded') >= Len(yielded)
                 /\ SubSeq(yielded', 1, Len(yielded)) = yielded
          /\ (animation_generator = None /\ animation_generator' = None) =>
                UNCHANGED <<pc, yielded>>]_vars

\* An animation was stopped midway: the last snapshot shown is that of a
\* cell other than the Goal, and no timer is pending.
C29_Witness ==
    /\ status = "Stopped"
    /\ shown >= 2 /\ Len(yielded) = shown
    /\ ~yielded[shown][4] /\ yielded[shown][1] # None
    /\ timers = {}

\* C30: an animation that is started ends: animation_running becomes false
\* again (stop_animation makes it so at once).  When it ends other than by
\* stop_animation, the status is 'Success!' exactly when the last snapshot
\* yielded is a goal-reached one, and 'No Path' exactly when next raised
\* StopIteration.
C30_AnimationCompletes ==
    /\ animation_running ~> ~animation_running
    /\ [][(animation_running /\ ~animation_running'
              /\ status' # "Stopped") =>
            /\ status' = "Success!" <=>
                  (yielded # <<>> /\ yielded[Len(yielded)][4])
            /\ status' = "No Path" <=> pc = "exhausted"]_vars

=============================================================================
